---------------------------- MODULE Spec2Model ----------------------------
(***************************************************************************)
(* Recipe price runner: the guarded calculation run                        *)
(* (runRecipePriceCalculation), its run lock, the ingredient-equivalence   *)
(* cache, and the pricing functions the run calls for every                *)
(* (recipe, store) pair.                                                   *)
(*                                                                         *)
(* Conventions.                                                            *)
(*  - A JavaScript number is an exact rational <<n, d>> with d > 0 and     *)
(*    gcd(n, d) = 1; null is the empty tuple.  Floating-point rounding     *)
(*    error is not modelled; Math.round, Math.ceil and Math.min/max are.   *)
(*  - A JavaScript string is a TLA+ string; Len, SubSeq and \o are the     *)
(*    only string operations used.                                         *)
(*  - Each await of the run is one atomic step: JavaScript runs a          *)
(*    continuation to the next await without interleaving.                 *)
(***************************************************************************)
EXTENDS Integers, Sequences, FiniteSets, TLC

(***************************************************************************)
(* Numbers                                                                 *)
(***************************************************************************)
NULL == <<>>

Abs(n) == IF n < 0 THEN -n ELSE n

RECURSIVE Gcd(_, _)
Gcd(a, b) == IF b = 0 THEN a ELSE Gcd(b, a % b)

\* The rational n/d in lowest terms, d > 0.
Q(n, d) ==
  LET g == Gcd(Abs(n), Abs(d))
      s == IF d < 0 THEN -1 ELSE 1
  IN  <<(s * n) \div g, (s * d) \div g>>

QInt(n) == <<n, 1>>
QZero == <<0, 1>>
QOne == <<1, 1>>
QMul(a, b) == Q(a[1] * b[1], a[2] * b[2])
QDiv(a, b) == Q(a[1] * b[2], a[2] * b[1])
QAdd(a, b) == Q(a[1] * b[2] + b[1] * a[2], a[2] * b[2])
QLt(a, b) == a[1] * b[2] < b[1] * a[2]
QLe(a, b) == a[1] * b[2] <= b[1] * a[2]
QMin(a, b) == IF QLt(b, a) THEN b ELSE a
QMax(a, b) == IF QLt(a, b) THEN b ELSE a
\* Math.ceil and Math.round (round half up), as integers.
QCeil(a) == -((-a[1]) \div a[2])
QRound(a) == (2 * a[1] + a[2]) \div (2 * a[2])
\* Math.round(x * 100) / 100
Round2(a) == Q(QRound(QMul(a, QInt(100))), 100)
\* x || 1 on a nullable number: null and 0 are falsy.
OrOne(a) == IF a = NULL \/ a[1] = 0 THEN QOne ELSE a

(***************************************************************************)
(* Strings                                                                 *)
(***************************************************************************)
Ch(s, i) == SubSeq(s, i, i)

\* String.prototype.includes
Includes(s, t) ==
  \E i \in 1..(Len(s) - Len(t) + 1) : SubSeq(s, i, i + Len(t) - 1) = t

StartsWith(s, t) == Len(t) <= Len(s) /\ SubSeq(s, 1, Len(t)) = t
EndsWith(s, t) == Len(t) <= Len(s) /\ SubSeq(s, Len(s) - Len(t) + 1, Len(s)) = t

UPPER == "ABCDEFGHIJKLMNOPQRSTUVWXYZÉÈÊËÀÂÎÏÔÙÛÇ"
LOWER == "abcdefghijklmnopqrstuvwxyzéèêëàâîïôùûç"
ACCENTED == "éèêëàâîïôùûçñ"
UNACCENTED == "eeeeaaiiouucn"

\* The map sending the i-th character of `from` to the i-th of `to`.
CharMap(from, to) ==
  [c \in {Ch(from, i) : i \in 1..Len(from)} |->
     Ch(to, CHOOSE i \in 1..Len(from) : Ch(from, i) = c)]

LowerCaseMap == CharMap(UPPER, LOWER)
UnaccentMap == CharMap(ACCENTED, UNACCENTED)

\* s with every character in the domain of map replaced by its image.
RECURSIVE MapString(_, _)
MapString(s, map) ==
  IF s = "" THEN ""
  ELSE LET c == Ch(s, 1)
       IN  (IF c \in DOMAIN map THEN map[c] ELSE c)
             \o MapString(SubSeq(s, 2, Len(s)), map)

toLowerCase(s) == MapString(s, LowerCaseMap)

IsSpace(c) == c = " "

RECURSIVE trimStart(_)
trimStart(s) ==
  IF s # "" /\ IsSpace(Ch(s, 1)) THEN trimStart(SubSeq(s, 2, Len(s))) ELSE s

RECURSIVE trimEnd(_)
trimEnd(s) ==
  IF s # "" /\ IsSpace(Ch(s, Len(s))) THEN trimEnd(SubSeq(s, 1, Len(s) - 1)) ELSE s

trim(s) == trimEnd(trimStart(s))

\* text.toLowerCase().normalize('NFD').replace(/[\u0300-\u036f]/g, '')
normalizeText(text) == MapString(toLowerCase(text), UnaccentMap)

\* s.split(/\s+/): the maximal runs of non-space characters, with the empty
\* string JavaScript yields before a leading and after a trailing separator.
RECURSIVE SplitFrom(_, _, _)
SplitFrom(s, i, cur) ==
  IF i > Len(s) THEN <<cur>>
  ELSE IF IsSpace(Ch(s, i))
       THEN IF i > 1 /\ IsSpace(Ch(s, i - 1))
            THEN SplitFrom(s, i + 1, cur)
            ELSE <<cur>> \o SplitFrom(s, i + 1, "")
       ELSE SplitFrom(s, i + 1, cur \o Ch(s, i))

splitWords(s) == SplitFrom(s, 1, "")

SelectLen(ws, min) == SelectSeq(ws, LAMBDA w : Len(w) >= min)

Range(f) == {f[i] : i \in DOMAIN f}

categoryEstimates == <<
  <<"Viandes", <<899, 100>>>>, <<"Poissons", <<1299, 100>>>>, <<"Produits laitiers", <<499, 100>>>>,
  <<"Fruits et légumes", <<299, 100>>>>, <<"Boulangerie", <<349, 100>>>>, <<"Épicerie", <<399, 100>>>>,
  <<"Surgelés", <<599, 100>>>>
>>

UNIT_TO_ML == <<
  <<"c. à soupe", <<15, 1>>>>, <<"c.s.", <<15, 1>>>>, <<"tbsp", <<15, 1>>>>,
  <<"cuillère à soupe", <<15, 1>>>>, <<"cuilleres a soupe", <<15, 1>>>>, <<"c. à thé", <<5, 1>>>>,
  <<"c.t.", <<5, 1>>>>, <<"tsp", <<5, 1>>>>, <<"cuillère à thé", <<5, 1>>>>,
  <<"cuilleres a the", <<5, 1>>>>, <<"tasse", <<250, 1>>>>, <<"tasses", <<250, 1>>>>,
  <<"cup", <<250, 1>>>>, <<"cups", <<250, 1>>>>, <<"ml", <<1, 1>>>>,
  <<"millilitre", <<1, 1>>>>, <<"millilitres", <<1, 1>>>>, <<"cl", <<10, 1>>>>,
  <<"centilitre", <<10, 1>>>>, <<"centilitres", <<10, 1>>>>, <<"l", <<1000, 1>>>>,
  <<"litre", <<1000, 1>>>>, <<"litres", <<1000, 1>>>>
>>

UNIT_TO_G == <<
  <<"g", <<1, 1>>>>, <<"gramme", <<1, 1>>>>, <<"grammes", <<1, 1>>>>,
  <<"kg", <<1000, 1>>>>, <<"kilogramme", <<1000, 1>>>>, <<"kilogrammes", <<1000, 1>>>>,
  <<"lb", <<454, 1>>>>, <<"lbs", <<454, 1>>>>, <<"livre", <<454, 1>>>>,
  <<"livres", <<454, 1>>>>, <<"oz", <<567, 20>>>>, <<"once", <<567, 20>>>>,
  <<"onces", <<567, 20>>>>, <<"pincée", <<1, 2>>>>, <<"pincee", <<1, 2>>>>,
  <<"pinch", <<1, 2>>>>
>>

UNIT_WEIGHT_IN_GRAMS == <<
  <<"ail", <<5, 1>>>>, <<"gousse d'ail", <<5, 1>>>>, <<"gousses d'ail", <<5, 1>>>>,
  <<"oignon", <<150, 1>>>>, <<"oignons", <<150, 1>>>>, <<"oeuf", <<50, 1>>>>,
  <<"oeufs", <<50, 1>>>>, <<"citron", <<100, 1>>>>, <<"citrons", <<100, 1>>>>,
  <<"lime", <<70, 1>>>>, <<"limes", <<70, 1>>>>, <<"orange", <<180, 1>>>>,
  <<"oranges", <<180, 1>>>>, <<"pomme", <<180, 1>>>>, <<"pommes", <<180, 1>>>>,
  <<"banane", <<120, 1>>>>, <<"bananes", <<120, 1>>>>, <<"avocat", <<200, 1>>>>,
  <<"avocats", <<200, 1>>>>, <<"tomate", <<150, 1>>>>, <<"tomates", <<150, 1>>>>,
  <<"poivron", <<150, 1>>>>, <<"poivrons", <<150, 1>>>>, <<"concombre", <<300, 1>>>>,
  <<"concombres", <<300, 1>>>>, <<"carotte", <<80, 1>>>>, <<"carottes", <<80, 1>>>>,
  <<"pomme de terre", <<200, 1>>>>, <<"pommes de terre", <<200, 1>>>>, <<"patate", <<200, 1>>>>,
  <<"patates", <<200, 1>>>>, <<"thym frais", <<10, 1>>>>, <<"thym", <<10, 1>>>>,
  <<"feuille de laurier", <<3, 10>>>>, <<"feuilles de laurier", <<3, 10>>>>, <<"laurier", <<3, 10>>>>,
  <<"basilic frais", <<15, 1>>>>, <<"romarin frais", <<10, 1>>>>, <<"romarin", <<10, 1>>>>,
  <<"persil frais", <<15, 1>>>>, <<"persil", <<15, 1>>>>, <<"coriandre fraîche", <<15, 1>>>>,
  <<"coriandre fraiche", <<15, 1>>>>, <<"coriandre", <<15, 1>>>>, <<"menthe fraîche", <<10, 1>>>>,
  <<"menthe fraiche", <<10, 1>>>>, <<"menthe", <<10, 1>>>>, <<"oignon vert", <<15, 1>>>>,
  <<"oignons verts", <<15, 1>>>>, <<"échalote verte", <<15, 1>>>>, <<"echalote verte", <<15, 1>>>>,
  <<"piment oiseau", <<5, 1>>>>, <<"piment", <<10, 1>>>>, <<"jalapeño", <<15, 1>>>>,
  <<"jalapeno", <<15, 1>>>>, <<"gingembre", <<10, 1>>>>, <<"gingembre frais", <<10, 1>>>>,
  <<"échalote", <<30, 1>>>>, <<"echalote", <<30, 1>>>>, <<"brocoli", <<300, 1>>>>,
  <<"laitue", <<400, 1>>>>, <<"chou", <<500, 1>>>>, <<"chou-fleur", <<500, 1>>>>,
  <<"courgette", <<200, 1>>>>, <<"courgettes", <<200, 1>>>>, <<"céleri", <<40, 1>>>>,
  <<"celeri", <<40, 1>>>>, <<"champignon", <<20, 1>>>>, <<"champignons", <<20, 1>>>>
>>

INGREDIENT_PRICE_CAPS == <<
  <<"eau", <<3, 1>>>>, <<"water", <<3, 1>>>>, <<"sel", <<4, 1>>>>,
  <<"salt", <<4, 1>>>>, <<"poivre", <<8, 1>>>>, <<"pepper", <<8, 1>>>>,
  <<"sucre", <<6, 1>>>>, <<"sugar", <<6, 1>>>>, <<"miel", <<12, 1>>>>,
  <<"honey", <<12, 1>>>>, <<"sirop", <<12, 1>>>>, <<"syrup", <<12, 1>>>>,
  <<"sauce soya", <<6, 1>>>>, <<"soy sauce", <<6, 1>>>>, <<"sauce soja", <<6, 1>>>>,
  <<"sauce poisson", <<6, 1>>>>, <<"fish sauce", <<6, 1>>>>, <<"vinaigre", <<6, 1>>>>,
  <<"vinegar", <<6, 1>>>>, <<"huile", <<12, 1>>>>, <<"oil", <<12, 1>>>>,
  <<"moutarde", <<5, 1>>>>, <<"mustard", <<5, 1>>>>, <<"ketchup", <<5, 1>>>>,
  <<"mayonnaise", <<6, 1>>>>, <<"mayo", <<6, 1>>>>, <<"sambal", <<6, 1>>>>,
  <<"sriracha", <<6, 1>>>>, <<"ail", <<5, 1>>>>, <<"garlic", <<5, 1>>>>,
  <<"oignon", <<4, 1>>>>, <<"onion", <<4, 1>>>>, <<"echalote", <<4, 1>>>>,
  <<"shallot", <<4, 1>>>>, <<"oignons verts", <<4, 1>>>>, <<"green onion", <<4, 1>>>>,
  <<"gingembre", <<5, 1>>>>, <<"ginger", <<5, 1>>>>, <<"coriandre", <<4, 1>>>>,
  <<"cilantro", <<4, 1>>>>, <<"persil", <<4, 1>>>>, <<"parsley", <<4, 1>>>>,
  <<"basilic", <<4, 1>>>>, <<"basil", <<4, 1>>>>, <<"thym", <<4, 1>>>>,
  <<"thyme", <<4, 1>>>>, <<"romarin", <<4, 1>>>>, <<"rosemary", <<4, 1>>>>,
  <<"menthe", <<4, 1>>>>, <<"mint", <<4, 1>>>>, <<"laurier", <<4, 1>>>>,
  <<"bay", <<4, 1>>>>, <<"piment", <<4, 1>>>>, <<"chili", <<4, 1>>>>,
  <<"jalapeno", <<4, 1>>>>, <<"cumin", <<5, 1>>>>, <<"paprika", <<5, 1>>>>,
  <<"curcuma", <<5, 1>>>>, <<"carotte", <<5, 1>>>>, <<"carrot", <<5, 1>>>>,
  <<"celeri", <<4, 1>>>>, <<"celery", <<4, 1>>>>, <<"pomme de terre", <<6, 1>>>>,
  <<"potato", <<6, 1>>>>, <<"patate", <<6, 1>>>>, <<"tomate", <<6, 1>>>>,
  <<"tomato", <<6, 1>>>>, <<"concombre", <<4, 1>>>>, <<"cucumber", <<4, 1>>>>,
  <<"poivron", <<5, 1>>>>, <<"bell pepper", <<5, 1>>>>, <<"laitue", <<4, 1>>>>,
  <<"lettuce", <<4, 1>>>>, <<"epinard", <<5, 1>>>>, <<"spinach", <<5, 1>>>>,
  <<"brocoli", <<5, 1>>>>, <<"broccoli", <<5, 1>>>>, <<"chou", <<4, 1>>>>,
  <<"cabbage", <<4, 1>>>>, <<"courgette", <<4, 1>>>>, <<"zucchini", <<4, 1>>>>,
  <<"champignon", <<6, 1>>>>, <<"mushroom", <<6, 1>>>>, <<"citron", <<4, 1>>>>,
  <<"lemon", <<4, 1>>>>, <<"lime", <<4, 1>>>>, <<"orange", <<5, 1>>>>,
  <<"pomme", <<5, 1>>>>, <<"apple", <<5, 1>>>>, <<"banane", <<4, 1>>>>,
  <<"banana", <<4, 1>>>>, <<"beurre", <<8, 1>>>>, <<"butter", <<8, 1>>>>,
  <<"creme", <<6, 1>>>>, <<"cream", <<6, 1>>>>, <<"lait", <<6, 1>>>>,
  <<"milk", <<6, 1>>>>, <<"yogourt", <<6, 1>>>>, <<"yogurt", <<6, 1>>>>,
  <<"ricotta", <<8, 1>>>>, <<"feta", <<10, 1>>>>, <<"parmesan", <<12, 1>>>>,
  <<"bouillon", <<5, 1>>>>, <<"broth", <<5, 1>>>>, <<"stock", <<5, 1>>>>,
  <<"pate tomate", <<4, 1>>>>, <<"tomato paste", <<4, 1>>>>, <<"concentre", <<5, 1>>>>,
  <<"farine", <<6, 1>>>>, <<"flour", <<6, 1>>>>, <<"oeuf", <<8, 1>>>>,
  <<"egg", <<8, 1>>>>, <<"tapioca", <<6, 1>>>>, <<"fecule", <<5, 1>>>>,
  <<"starch", <<5, 1>>>>, <<"levure", <<5, 1>>>>, <<"yeast", <<5, 1>>>>,
  <<"gelatine", <<5, 1>>>>, <<"pates", <<6, 1>>>>, <<"pasta", <<6, 1>>>>,
  <<"spaghetti", <<6, 1>>>>, <<"macaroni", <<6, 1>>>>, <<"riz", <<8, 1>>>>,
  <<"rice", <<8, 1>>>>, <<"quinoa", <<10, 1>>>>, <<"couscous", <<6, 1>>>>,
  <<"noix", <<15, 1>>>>, <<"nut", <<15, 1>>>>, <<"amande", <<15, 1>>>>,
  <<"almond", <<15, 1>>>>, <<"arachide", <<8, 1>>>>, <<"peanut", <<8, 1>>>>,
  <<"sesame", <<8, 1>>>>
>>

PRODUCT_STANDARD_SIZES == <<
  <<"huile", <<750, 1>>, "ml">>, <<"huile d'olive", <<750, 1>>, "ml">>,
  <<"huile olive", <<750, 1>>, "ml">>, <<"huile végétale", <<946, 1>>, "ml">>,
  <<"huile vegetale", <<946, 1>>, "ml">>, <<"huile de canola", <<946, 1>>, "ml">>,
  <<"vinaigre", <<500, 1>>, "ml">>, <<"vinaigre balsamique", <<250, 1>>, "ml">>,
  <<"sauce soya", <<450, 1>>, "ml">>, <<"sauce soja", <<450, 1>>, "ml">>,
  <<"sirop d'érable", <<540, 1>>, "ml">>, <<"sirop erable", <<540, 1>>, "ml">>,
  <<"miel", <<500, 1>>, "ml">>, <<"lait", <<2000, 1>>, "ml">>,
  <<"crème", <<473, 1>>, "ml">>, <<"creme", <<473, 1>>, "ml">>,
  <<"bouillon", <<900, 1>>, "ml">>, <<"moutarde", <<250, 1>>, "ml">>,
  <<"moutarde de dijon", <<250, 1>>, "ml">>, <<"mayonnaise", <<450, 1>>, "ml">>,
  <<"ketchup", <<750, 1>>, "ml">>, <<"sriracha", <<480, 1>>, "ml">>,
  <<"sauce piquante", <<150, 1>>, "ml">>, <<"tabasco", <<60, 1>>, "ml">>,
  <<"sambal", <<200, 1>>, "ml">>, <<"pâte de tomate", <<156, 1>>, "ml">>,
  <<"pate de tomate", <<156, 1>>, "ml">>, <<"pâte de tomates", <<156, 1>>, "ml">>,
  <<"pate de tomates", <<156, 1>>, "ml">>, <<"vin", <<750, 1>>, "ml">>,
  <<"vin rouge", <<750, 1>>, "ml">>, <<"vin blanc", <<750, 1>>, "ml">>,
  <<"bouillon de boeuf", <<900, 1>>, "ml">>, <<"bouillon de poulet", <<900, 1>>, "ml">>,
  <<"bouillon de légumes", <<900, 1>>, "ml">>, <<"bouillon de legumes", <<900, 1>>, "ml">>,
  <<"paprika", <<50, 1>>, "g">>, <<"paprika fumé", <<50, 1>>, "g">>,
  <<"paprika fume", <<50, 1>>, "g">>, <<"cumin", <<50, 1>>, "g">>,
  <<"origan", <<25, 1>>, "g">>, <<"oregano", <<25, 1>>, "g">>,
  <<"thym", <<25, 1>>, "g">>, <<"thym frais", <<25, 1>>, "g">>,
  <<"feuille de laurier", <<10, 1>>, "g">>, <<"feuilles de laurier", <<10, 1>>, "g">>,
  <<"laurier", <<10, 1>>, "g">>, <<"basilic", <<250, 1>>, "ml">>,
  <<"basilic frais", <<250, 1>>, "ml">>, <<"basilic haché", <<250, 1>>, "ml">>,
  <<"romarin", <<250, 1>>, "ml">>, <<"romarin frais", <<250, 1>>, "ml">>,
  <<"persil", <<250, 1>>, "ml">>, <<"persil frais", <<250, 1>>, "ml">>,
  <<"persil haché", <<250, 1>>, "ml">>, <<"coriandre", <<250, 1>>, "ml">>,
  <<"coriandre fraîche", <<250, 1>>, "ml">>, <<"coriandre fraiche", <<250, 1>>, "ml">>,
  <<"coriandre hachée", <<250, 1>>, "ml">>, <<"coriandre hachee", <<250, 1>>, "ml">>,
  <<"menthe", <<250, 1>>, "ml">>, <<"menthe fraîche", <<250, 1>>, "ml">>,
  <<"menthe fraiche", <<250, 1>>, "ml">>, <<"ciboulette", <<250, 1>>, "ml">>,
  <<"aneth", <<250, 1>>, "ml">>, <<"cannelle", <<50, 1>>, "g">>,
  <<"muscade", <<30, 1>>, "g">>, <<"poivre", <<50, 1>>, "g">>,
  <<"sel", <<500, 1>>, "g">>, <<"ail en poudre", <<50, 1>>, "g">>,
  <<"poudre d'ail", <<50, 1>>, "g">>, <<"oignon en poudre", <<50, 1>>, "g">>,
  <<"poudre d'oignon", <<50, 1>>, "g">>, <<"herbes de provence", <<30, 1>>, "g">>,
  <<"épices italiennes", <<30, 1>>, "g">>, <<"epices italiennes", <<30, 1>>, "g">>,
  <<"cari", <<50, 1>>, "g">>, <<"curry", <<50, 1>>, "g">>,
  <<"gingembre moulu", <<40, 1>>, "g">>, <<"piment", <<40, 1>>, "g">>,
  <<"cayenne", <<40, 1>>, "g">>, <<"farine", <<2500, 1>>, "g">>,
  <<"sucre", <<2000, 1>>, "g">>, <<"cassonade", <<1000, 1>>, "g">>,
  <<"riz", <<900, 1>>, "g">>, <<"pâtes", <<450, 1>>, "g">>,
  <<"pates", <<450, 1>>, "g">>, <<"spaghetti", <<450, 1>>, "g">>,
  <<"quinoa", <<400, 1>>, "g">>, <<"avoine", <<1000, 1>>, "g">>,
  <<"chapelure", <<425, 1>>, "g">>, <<"beurre", <<454, 1>>, "g">>,
  <<"fromage", <<400, 1>>, "g">>, <<"parmesan", <<200, 1>>, "g">>,
  <<"yogourt", <<650, 1>>, "g">>, <<"crème fraîche", <<250, 1>>, "ml">>,
  <<"creme fraiche", <<250, 1>>, "ml">>, <<"crème sure", <<500, 1>>, "ml">>,
  <<"creme sure", <<500, 1>>, "ml">>
>>

\* The ligature of the source's "œuf" and "œufs", outside the character range of
\* TLA+ strings, is written "æ".
UNIT_BASED_INGREDIENTS == <<
  "oeuf", "oeufs", "æuf", "æufs", "oignon",
  "oignons", "oignon vert", "oignons verts", "échalote verte", "echalote verte",
  "ail", "gousse d'ail", "gousses d'ail", "citron", "citrons",
  "lime", "limes", "orange", "oranges", "pomme",
  "pommes", "banane", "bananes", "avocat", "avocats",
  "tomate", "tomates", "poivron", "poivrons", "concombre",
  "concombres", "carotte", "carottes", "pomme de terre", "pommes de terre",
  "patate", "patates", "poulet", "poitrine de poulet", "cuisse de poulet",
  "pain", "baguette", "piment", "piment oiseau", "jalapeño",
  "jalapeno"
>>

INGREDIENT_KEYWORDS == <<
  <<"poulet", <<"poulet", "volaille", "poitrine poulet", "cuisse poulet", "aile poulet">>>>,
  <<"boeuf", <<"boeuf", "bifteck", "steak", "viande hachee", "haché">>>>,
  <<"porc", <<"porc", "cotelette", "longe", "filet porc", "bacon", "jambon">>>>,
  <<"poisson", <<"poisson", "saumon", "tilapia", "truite", "morue", "sole", "thon">>>>,
  <<"oeuf", <<"oeuf", "oeufs">>>>,
  <<"lait", <<"lait", "lactose">>>>,
  <<"fromage", <<"fromage", "cheddar", "mozzarella", "parmesan", "brie", "feta">>>>,
  <<"yogourt", <<"yogourt", "yaourt", "grec", "iogo">>>>,
  <<"pain", <<"pain", "baguette", "croute", "tranche">>>>,
  <<"pates", <<"pate", "pates", "spaghetti", "macaroni", "penne", "fusilli", "catelli">>>>,
  <<"riz", <<"riz", "basmati", "jasmin">>>>,
  <<"tomate", <<"tomate", "tomates">>>>,
  <<"oignon", <<"oignon", "oignons", "echalote">>>>,
  <<"ail", <<"ail", "gousse">>>>,
  <<"carotte", <<"carotte", "carottes">>>>,
  <<"pomme de terre", <<"pomme terre", "patate", "patates", "pommes terre">>>>,
  <<"beurre", <<"beurre", "margarine">>>>,
  <<"huile", <<"huile", "olive", "canola", "vegetale">>>>,
  <<"sucre", <<"sucre", "cassonade">>>>,
  <<"farine", <<"farine", "ble">>>>,
  <<"legumes", <<"legume", "legumes", "brocoli", "epinard", "courgette", "poivron">>>>,
  <<"fruits", <<"pomme", "banane", "orange", "fraise", "bleuet", "framboise">>>>
>>

EXCLUDED_PRODUCT_KEYWORDS == <<
  "pampers", "huggies", "couche", "couches", "diaper", "diapers",
  "tablet", "tablette", "samsung", "apple", "iphone", "ipad",
  "galaxy", "television", "televiseur", "tele", "ecran", "monitor",
  "matelas", "meuble", "meubles", "furniture", "velo", "vélo",
  "bicycle", "exercice", "fitness", "pelle", "neige", "outils",
  "tools", "shampoo", "shampooing", "savon", "soap", "detergent",
  "nettoyant", "papier toilette", "toilet paper", "mouchoir", "tissue", "vetement",
  "vêtement", "clothing", "shirt", "pantalon", "matcha", "supplement",
  "vitamine", "vitamin", "fonctionnel", "functional", "adaptogene", "adaptogen"
>>
(***************************************************************************)
(* Table access                                                            *)
(***************************************************************************)
\* T[k] !== undefined and T[k] for a Record<string, number> of <<key, value>>.
Has(T, k) == \E i \in DOMAIN T : T[i][1] = k
Get(T, k) == T[CHOOSE i \in DOMAIN T : T[i][1] = k][2]

\* T[k], NULL for undefined
Lookup(T, k) == IF Has(T, k) THEN Get(T, k) ELSE NULL

\* Index of the first entry of T satisfying P, 0 when there is none: a
\* for..of loop that returns at its first hit.
Least(S) == IF S = {} THEN 0 ELSE CHOOSE i \in S : \A j \in S : i <= j

FirstIndex(T, P(_)) == Least({i \in DOMAIN T : P(T[i])})

\* a.includes(b) || b.includes(a)
EitherIncludes(a, b) == Includes(a, b) \/ Includes(b, a)

(***************************************************************************)
(* Unit weights, package sizes, unit classification                        *)
(***************************************************************************)
\* The cache is the Map ingredientEquivalenceCache as the sequence of its
\* entries <<key, toQuantity, toUnit>> in insertion order.
getUnitWeightFromEquivalences(cache, ingredientName) ==
  LET Search(normalized) ==
        LET First(exact, partial) ==
              IF exact # 0 /\ cache[exact][3] = "g" THEN cache[exact][2]
              ELSE IF partial # 0 THEN cache[partial][2]
              ELSE NULL
        IN  First(FirstIndex(cache, LAMBDA e : e[1] = normalized),
                  FirstIndex(cache,
                    LAMBDA e : e[3] = "g" /\ EitherIncludes(normalized, e[1])))
  IN  Search(normalizeText(ingredientName))

getUnitWeightInGrams(cache, ingredientName) ==
  LET Search(dbWeight, normalized) ==
        LET Static(hit) == IF hit # 0 THEN UNIT_WEIGHT_IN_GRAMS[hit][2] ELSE NULL
            Matches(keyNorm) == normalized = keyNorm \/ EitherIncludes(normalized, keyNorm)
        IN  IF dbWeight # NULL THEN dbWeight
            ELSE Static(FirstIndex(UNIT_WEIGHT_IN_GRAMS,
                                   LAMBDA e : Matches(normalizeText(e[1]))))
  IN  Search(getUnitWeightFromEquivalences(cache, ingredientName),
             normalizeText(ingredientName))

\* <<size, unit>> or NULL
getProductStandardSize(ingredientName) ==
  LET Search(sizes, normalized) ==
        LET First(exact, partial) ==
              IF exact # 0 THEN <<sizes[exact][2], sizes[exact][3]>>
              ELSE IF partial # 0 THEN <<sizes[partial][2], sizes[partial][3]>>
              ELSE NULL
        IN  First(FirstIndex(sizes, LAMBDA e : normalizeText(e[1]) = normalized),
                  FirstIndex(sizes,
                    LAMBDA e : EitherIncludes(normalized, normalizeText(e[1]))))
  IN  Search(PRODUCT_STANDARD_SIZES, normalizeText(ingredientName))

isUnitBasedIngredient(ingredientName) ==
  LET Search(normalized) ==
        \E i \in DOMAIN UNIT_BASED_INGREDIENTS :
          EitherIncludes(normalized, normalizeText(UNIT_BASED_INGREDIENTS[i]))
  IN  Search(normalizeText(ingredientName))

WEIGHT_UNITS ==
  {"g", "kg", "gramme", "grammes", "kilogramme", "kilogrammes", "lb", "lbs", "oz"}

VOLUME_UNITS ==
  {"ml", "l", "cl", "millilitre", "millilitres", "litre", "litres",
   "centilitre", "centilitres",
   "c. à soupe", "c.s.", "tbsp", "cuillère à soupe", "cuilleres a soupe",
   "c. à thé", "c.t.", "tsp", "cuillère à thé", "cuilleres a the",
   "tasse", "tasses", "cup", "cups"}

isWeightOrVolumeUnit(unit) ==
  LET Listed(u) == u \in WEIGHT_UNITS \/ u \in VOLUME_UNITS
  IN  Listed(trim(toLowerCase(unit)))

COUNTING_UNITS ==
  {"gousse", "gousses", "branche", "branches", "tige", "tiges",
   "feuille", "feuilles", "tranche", "tranches", "morceau", "morceaux",
   "unité", "unités", "pièce", "pièces", ""}

(***************************************************************************)
(* calculateProportionalCost                                               *)
(***************************************************************************)
\* The per-family branch of calculateProportionalCost:
\* <<packageSizeGrams, isProbablyPerItemPrice>> for a normalized name.
PackageHeuristic(normalized, productPrice) ==
  LET has(w) == Includes(normalized, w)
      pick(limit, a, b) ==
        IF QLt(productPrice, limit) THEN <<a, TRUE>> ELSE <<b, FALSE>>
  IN  IF has("ail") \/ has("gousse") THEN <<50, FALSE>>
      ELSE IF has("oignon vert") \/ has("oignons vert") \/ has("oignons verts")
              \/ has("echalote verte") \/ has("echalotes verte")
              \/ has("echalotes vertes") THEN <<100, FALSE>>
      ELSE IF has("herbe") \/ has("thym") \/ has("romarin") \/ has("basilic")
              \/ has("persil") \/ has("coriandre") \/ has("menthe")
              \/ has("laurier") THEN <<30, FALSE>>
      ELSE IF has("carotte") THEN pick(Q(80, 100), 80, 1000)
      ELSE IF has("oignon") /\ ~has("vert") THEN pick(Q(80, 100), 150, 1500)
      ELSE IF (has("pomme") /\ has("terre")) \/ has("patate")
           THEN pick(Q(80, 100), 200, 2000)
      ELSE IF has("citron") \/ has("lime") THEN pick(Q(150, 100), 100, 1000)
      ELSE IF has("orange") THEN pick(Q(150, 100), 180, 1000)
      ELSE IF has("piment") \/ has("jalapeno") THEN <<100, FALSE>>
      ELSE IF has("banane") THEN pick(Q(100, 100), 120, 1000)
      ELSE IF has("pomme") /\ ~has("terre") THEN pick(Q(150, 100), 180, 1000)
      ELSE IF has("tomate") THEN pick(Q(150, 100), 150, 1000)
      ELSE IF has("avocat") THEN pick(Q(300, 100), 200, 600)
      ELSE IF has("concombre") THEN pick(Q(150, 100), 300, 600)
      ELSE IF has("poivron") THEN pick(Q(150, 100), 150, 500)
      ELSE IF has("celeri") THEN <<500, FALSE>>
      ELSE <<500, FALSE>>

\* The default package size when no standard size is known and the recipe
\* unit is a weight or volume unit: <<size, unit>> or NULL.
DefaultStandardSize(normalized, unitLower) ==
  LET has(w) == Includes(normalized, w)
  IN  IF has("poulet") \/ has("boeuf") \/ has("porc") \/ has("viande")
         \/ has("jambon") \/ has("saucisse") \/ has("bacon") \/ has("dinde")
      THEN <<QInt(1000), "g">>
      ELSE IF has("poisson") \/ has("saumon") \/ has("crevette") \/ has("morue")
      THEN <<QInt(500), "g">>
      ELSE IF has("fromage") THEN <<QInt(400), "g">>
      ELSE IF unitLower = "g" \/ unitLower = "kg" THEN <<QInt(500), "g">>
      ELSE IF unitLower = "ml" \/ unitLower = "l" THEN <<QInt(500), "ml">>
      ELSE NULL

\* Math.max(0.01, Math.round(cost * 100) / 100)
AtLeastOneCent(cost) == QMax(Q(1, 100), Round2(cost))

\* The branch for an ingredient sold by the piece or a counting unit, given
\* the weight of one unit (NULL when unknown) and the package heuristic.
CostByCount(quantity, productPrice, unitWeight, heur) ==
  LET proportion == QDiv(QMul(quantity, unitWeight), QInt(heur[1]))
      ceiling == QCeil(quantity)
  IN  IF unitWeight # NULL
      THEN IF heur[2]
           THEN AtLeastOneCent(QMul(productPrice, quantity))
           ELSE AtLeastOneCent(QMin(QMul(productPrice, proportion),
                                    QMul(productPrice, QInt(QCeil(proportion)))))
      ELSE QMul(productPrice, QInt(IF ceiling < 2 THEN ceiling ELSE 2))

\* standardSize after the defaults for a weight or volume unit of an
\* ingredient without a standard size.
StandardSizeOrDefault(found, hasWeightVolumeUnit, normalized, unitLower) ==
  IF found = NULL /\ hasWeightVolumeUnit
  THEN DefaultStandardSize(normalized, unitLower)
  ELSE found

\* The branch that converts the recipe quantity to the unit of the standard
\* package size (NULL when there is none).
CostBySize(quantity, productPrice, unitLower, standardSize) ==
  LET toMl == Lookup(UNIT_TO_ML, unitLower)
      toG == Lookup(UNIT_TO_G, unitLower)
      Converted(first, second) ==
        IF first # NULL THEN QMul(quantity, first)
        ELSE IF second # NULL THEN QMul(quantity, second)
        ELSE NULL
      Priced(recipeQuantityInStandardUnit) ==
        IF recipeQuantityInStandardUnit = NULL THEN productPrice
        ELSE AtLeastOneCent(
               QMul(productPrice,
                    QDiv(recipeQuantityInStandardUnit, standardSize[1])))
  IN  IF standardSize = NULL THEN productPrice
      ELSE IF standardSize[2] = "ml" THEN Priced(Converted(toMl, toG))
      ELSE Priced(Converted(toG, toMl))

\* calculateProportionalCost after its first three statements.
ProportionalCost(cache, quantity, productPrice, ingredientName, unitLower, normalized, hasWeightVolumeUnit) ==
  IF ~hasWeightVolumeUnit
     /\ (isUnitBasedIngredient(ingredientName) \/ unitLower \in COUNTING_UNITS)
  THEN CostByCount(quantity, productPrice,
                   getUnitWeightInGrams(cache, ingredientName),
                   PackageHeuristic(normalized, productPrice))
  ELSE CostBySize(quantity, productPrice, unitLower,
                  StandardSizeOrDefault(getProductStandardSize(ingredientName),
                                        hasWeightVolumeUnit, normalized, unitLower))

calculateProportionalCost(cache, quantity, unit, productPrice, ingredientName) ==
  ProportionalCost(cache, quantity, productPrice, ingredientName,
                   trim(toLowerCase(unit)), normalizeText(ingredientName),
                   isWeightOrVolumeUnit(trim(toLowerCase(unit))))

(***************************************************************************)
(* calculateCostFromUnitPrice                                              *)
(***************************************************************************)
PLAIN_COUNT_UNITS == {"", "unité", "unités", "pièce", "pièces"}

\* x / 1000
PerThousand(x) == QDiv(x, QInt(1000))

\* The quantity in kilograms of a count of units of known weight, NULL
\* when the weight is unknown.
CountInKilograms(quantity, unitWeight) ==
  IF unitWeight # NULL THEN PerThousand(QMul(quantity, unitWeight)) ELSE NULL

\* quantityNormalized: the recipe quantity in the unit of the price, NULL
\* when it cannot be converted.
QuantityNormalized(cache, quantity, ingredientName, unitLower, priceUnitLower) ==
  LET toG == Lookup(UNIT_TO_G, unitLower)
      toMl == Lookup(UNIT_TO_ML, unitLower)
  IN  IF priceUnitLower = "kg"
      THEN IF toG # NULL THEN PerThousand(QMul(quantity, toG))
           ELSE IF toMl # NULL THEN PerThousand(QMul(quantity, toMl))
           ELSE IF unitLower \in PLAIN_COUNT_UNITS
           THEN CountInKilograms(quantity, getUnitWeightInGrams(cache, ingredientName))
           ELSE NULL
      ELSE IF priceUnitLower = "l"
      THEN IF toMl # NULL THEN PerThousand(QMul(quantity, toMl))
           ELSE IF toG # NULL THEN PerThousand(QMul(quantity, toG))
           ELSE NULL
      ELSE NULL

\* The cost before rounding, given quantityNormalized.
CostOfNormalized(quantity, unitPrice, ingredientName, priceUnitLower, quantityNormalized) ==
  IF quantityNormalized # NULL THEN QMul(unitPrice, quantityNormalized)
  ELSE IF isUnitBasedIngredient(ingredientName) /\ priceUnitLower = "kg"
  THEN QMul(unitPrice, PerThousand(QMul(quantity, QInt(100))))
  ELSE QMul(unitPrice, quantity)

\* calculateCostFromUnitPrice after its first two statements, before the
\* final rounding.
UnitPriceCost(cache, quantity, unitPrice, ingredientName, unitLower, priceUnitLower) ==
  IF priceUnitLower = "unité" \/ priceUnitLower = ""
  THEN QMul(unitPrice, quantity)
  ELSE CostOfNormalized(quantity, unitPrice, ingredientName, priceUnitLower,
         QuantityNormalized(cache, quantity, ingredientName, unitLower, priceUnitLower))

calculateCostFromUnitPrice(cache, quantity, unit, unitPrice, ingredientName, priceUnit) ==
  AtLeastOneCent(UnitPriceCost(cache, quantity, unitPrice, ingredientName,
                               trim(toLowerCase(unit)), toLowerCase(priceUnit)))
(***************************************************************************)
(* findUnifiedPrice                                                        *)
(***************************************************************************)
\* A unified entry is [genericProduct, regularPrice, salePrice, unitPrice,
\* quantity, unit]; a null genericProduct or unit is "", a null number NULL.
\* a ?? b
Coalesce(a, b) == IF a # NULL THEN a ELSE b

\* The entry the matching loop leaves in bestMatch (its index, 0 for none):
\* the first exact match if there is one (break), else the first entry of
\* highest score among the partial matches.
UnifiedBestMatch(ingredientName, unified) ==
  LET Search(fullNameNorm) ==
        LET Pick(searchTerms, productNorm) ==
              LET named == {i \in DOMAIN unified : unified[i].genericProduct # ""}
                  matches(i) ==
                    \/ EitherIncludes(productNorm[i], fullNameNorm)
                    \/ \E t \in DOMAIN searchTerms : Includes(productNorm[i], searchTerms[t])
                  score(i) == Q(Len(fullNameNorm), Len(productNorm[i]))
                  \* bestScore starts at 0: the first match is taken whatever
                  \* its score, a later one only when its score is strictly
                  \* higher.
                  Best(partial) ==
                    Least({i \in partial : \A j \in partial :
                             IF j < i THEN QLt(score(j), score(i))
                             ELSE QLe(score(j), score(i))})
                  First(exact) ==
                    IF exact # 0 THEN exact ELSE Best({i \in named : matches(i)})
              IN  First(Least({i \in named : productNorm[i] = fullNameNorm}))
        IN  Pick(SelectLen(splitWords(fullNameNorm), 3),
                 [i \in DOMAIN unified |-> normalizeText(unified[i].genericProduct)])
  IN  Search(normalizeText(ingredientName))

\* [unitPrice, normalizedUnit, productPrice] or NULL
findUnifiedPrice(ingredientName, storeData) ==
  LET Price(bestMatch) ==
        LET Result(productPrice, unit, quantity) ==
              LET result(p, u) ==
                    [unitPrice |-> p, normalizedUnit |-> u, productPrice |-> productPrice]
                  orUnite == IF unit = "" THEN "unité" ELSE unit
                  PerQuantity(perQuantity) ==
                    IF unit = "g" THEN result(QMul(perQuantity, QInt(1000)), "kg")
                    ELSE IF unit = "ml" THEN result(QMul(perQuantity, QInt(1000)), "l")
                    ELSE IF unit = "kg" THEN result(perQuantity, "kg")
                    ELSE IF unit = "l" THEN result(perQuantity, "l")
                    ELSE result(perQuantity, orUnite)
              IN  IF productPrice = QZero THEN NULL
                  ELSE IF bestMatch.unitPrice # NULL
                  THEN IF unit = "g" \/ unit = "kg" THEN result(bestMatch.unitPrice, "kg")
                       ELSE IF unit = "ml" \/ unit = "l" THEN result(bestMatch.unitPrice, "l")
                       ELSE result(bestMatch.unitPrice, orUnite)
                  ELSE IF QLt(QZero, quantity)
                  THEN PerQuantity(QDiv(productPrice, quantity))
                  ELSE NULL
        IN  Result(Coalesce(bestMatch.salePrice, Coalesce(bestMatch.regularPrice, QZero)),
                   toLowerCase(bestMatch.unit), OrOne(bestMatch.quantity))
      Found(idx) == IF idx = 0 THEN NULL ELSE Price(storeData.unified[idx])
  IN  Found(UnifiedBestMatch(ingredientName, storeData.unified))

(***************************************************************************)
(* scorePromoMatch                                                         *)
(***************************************************************************)
getRelatedKeywords(ingredientName) ==
  LET Search(normalized) ==
        LET applies(e) ==
              \/ EitherIncludes(normalized, normalizeText(e[1]))
              \/ \E v \in DOMAIN e[2] : Includes(normalized, normalizeText(e[2][v]))
            Collect(keywords) ==
              UNION {Range(keywords[i][2]) :
                       i \in {j \in DOMAIN keywords : applies(keywords[j])}}
        IN  Collect(INGREDIENT_KEYWORDS)
  IN  Search(normalizeText(ingredientName))

ASCII_LOWER == "abcdefghijklmnopqrstuvwxyz"
ASCII_UPPER == "ABCDEFGHIJKLMNOPQRSTUVWXYZ"
AsciiFoldMap == CharMap(ASCII_UPPER, ASCII_LOWER)
\* [a-z] under the i flag
IsLetter(c) == c \in DOMAIN AsciiFoldMap \/ c \in Range(AsciiFoldMap)
AsciiLower(s) == MapString(s, AsciiFoldMap)

\* new RegExp(`(^|\\s|[^a-z])${word}($|\\s|[^a-z])`, 'i').test(text), for a
\* word free of regular-expression metacharacters.
matchesWholeWord(text, word) ==
  \E i \in 1..(Len(text) - Len(word) + 1) :
    LET j == i + Len(word) - 1
    IN  /\ AsciiLower(SubSeq(text, i, j)) = AsciiLower(word)
        /\ i = 1 \/ ~IsLetter(Ch(text, i - 1))
        /\ j = Len(text) \/ ~IsLetter(Ch(text, j + 1))

SeqHas(ws, w) == \E i \in DOMAIN ws : ws[i] = w

RECURSIVE SumSeq(_)
SumSeq(qs) == IF qs = <<>> THEN QZero ELSE QAdd(qs[1], SumSeq(Tail(qs)))

\* A variant of the boost that adds 0.5 to baseScore.
RelatedScoreAdded(promoNorm, promoWords, related, baseScore) ==
  IF \E kw \in related : SeqHas(promoWords, kw) \/ matchesWholeWord(promoNorm, kw)
  THEN QAdd(baseScore, Q(1, 2))
  ELSE baseScore

\* The boost of the related keywords: Math.max(baseScore, 0.5) when one of
\* them is a word of the promo name.
RelatedScore(promoNorm, promoWords, related, baseScore) ==
  IF \E kw \in related : SeqHas(promoWords, kw) \/ matchesWholeWord(promoNorm, kw)
  THEN QMax(baseScore, Q(1, 2))
  ELSE baseScore

\* scorePromoMatch from the whole-name test on, given both word lists.
WordScore(ingredientName, ingredientNorm, promoNorm, ingredientWords, promoWords) ==
  LET n == Len(ingredientWords)
      isExact(w) == SeqHas(promoWords, w)
      isPartial(w) ==
        \E k \in DOMAIN promoWords :
          StartsWith(promoWords[k], w) \/ EndsWith(promoWords[k], w)
      counts(w) == ~isExact(w) /\ isPartial(w) /\ Len(w) >= 4
  IN  IF SeqHas(promoWords, ingredientNorm)
         \/ matchesWholeWord(promoNorm, ingredientNorm)
      THEN QOne
      ELSE IF n = 0 THEN QZero
      ELSE RelatedScore(promoNorm, promoWords, getRelatedKeywords(ingredientName),
             \* each counted partial match adds 0.5
             QAdd(Q(Cardinality({k \in 1..n : isExact(ingredientWords[k])}), n),
                  QMul(QDiv(Q(Cardinality({k \in 1..n : counts(ingredientWords[k])}), 2),
                            QInt(n)),
                       Q(3, 10))))

\* A variant of scorePromoMatch without the list of excluded products.
ScoreUnscreened(ingredientName, ingredientNorm, promoNorm) ==
  WordScore(ingredientName, ingredientNorm, promoNorm,
            SelectLen(splitWords(ingredientNorm), 2),
            SelectLen(splitWords(promoNorm), 2))

\* scorePromoMatch on the two normalized names.
NormalizedScore(ingredientName, ingredientNorm, promoNorm) ==
  IF \E x \in DOMAIN EXCLUDED_PRODUCT_KEYWORDS :
       Includes(promoNorm, EXCLUDED_PRODUCT_KEYWORDS[x])
  THEN QZero
  ELSE WordScore(ingredientName, ingredientNorm, promoNorm,
                 SelectLen(splitWords(ingredientNorm), 2),
                 SelectLen(splitWords(promoNorm), 2))

scorePromoMatch(ingredientName, promoName) ==
  NormalizedScore(ingredientName, normalizeText(ingredientName), normalizeText(promoName))

(***************************************************************************)
(* findBestPrice                                                           *)
(***************************************************************************)
GLOBAL_MAX_INGREDIENT_PRICE == 50
GLOBAL_MAX_INGREDIENT_COST == 60
MAX_RECIPE_TOTAL == 200

getIngredientPriceCap(ingredientName) ==
  LET Search(caps, normalized) ==
        LET Cap(hit) ==
              IF hit # 0 THEN caps[hit][2] ELSE QInt(GLOBAL_MAX_INGREDIENT_PRICE)
        IN  Cap(FirstIndex(caps, LAMBDA e : EitherIncludes(normalized, normalizeText(e[1]))))
  IN  Search(INGREDIENT_PRICE_CAPS, normalizeText(ingredientName))

\* A variant of the loop that keeps the first entry it may select.
FirstOf(entries, cap, score) ==
  Least({i \in DOMAIN entries :
           ~QLt(cap, entries[i][2]) /\ QLe(Q(1, 2), score[i])})

\* The entry a promo/reference loop leaves in best (its index, 0 for none):
\* among the entries priced at most the cap and scoring at least 0.5, the
\* first of highest score and, at that score, of lowest price.
\* entries are <<productName, price>>.
\* The choice among scored entries: score[i] is scorePromoMatch of entry i.
BestOf(entries, cap, score) ==
  LET better(i, j) ==
        QLt(score[j], score[i])
          \/ (score[i] = score[j] /\ QLt(entries[i][2], entries[j][2]))
      ok == {i \in DOMAIN entries :
               ~QLt(cap, entries[i][2]) /\ QLe(Q(1, 2), score[i])}
  IN  Least({i \in ok : \A j \in ok :
               IF j < i THEN better(i, j) ELSE ~better(j, i)})

BestScored(ingredientName, entries, cap) ==
  BestOf(entries, cap,
         [i \in DOMAIN entries |-> scorePromoMatch(ingredientName, entries[i][1])])

\* [ingredientName, price, source, normalizedUnit]; a result without
\* normalizedUnit (undefined, falsy) carries "".
PriceResult(ingredientName, price, source, normalizedUnit) ==
  [ingredientName |-> ingredientName, price |-> price, source |-> source,
   normalizedUnit |-> normalizedUnit]

\* Priorities 2 to 4 of findBestPrice: the best promotion, else the best
\* reference price, else the category estimate.
ListedPrice(ingredientName, ingredientCategory, storeData, ingredientPriceCap, bestPromo, bestRef) ==
  LET known == Lookup(categoryEstimates, ingredientCategory)
  IN  IF bestPromo # 0
      THEN PriceResult(ingredientName, storeData.promos[bestPromo][2], "promo", "")
      ELSE IF bestRef # 0
      THEN PriceResult(ingredientName, storeData.refs[bestRef][2], "reference", "")
      ELSE PriceResult(ingredientName,
                       QMin(IF ingredientCategory # "" /\ known # NULL
                            THEN known ELSE Q(399, 100),
                            ingredientPriceCap),
                       "estimate", "")

\* A variant of findBestPrice that returns the unified unit price as found.
CappedPriceAsFound(ingredientName, ingredientCategory, storeData, ingredientPriceCap, unifiedMatch) ==
  IF unifiedMatch # NULL /\ QLt(QZero, unifiedMatch.unitPrice)
  THEN PriceResult(ingredientName, unifiedMatch.unitPrice, "unified",
                   unifiedMatch.normalizedUnit)
  ELSE ListedPrice(ingredientName, ingredientCategory, storeData, ingredientPriceCap,
                   BestScored(ingredientName, storeData.promos, ingredientPriceCap),
                   BestScored(ingredientName, storeData.refs, ingredientPriceCap))

\* findBestPrice given the cap and the unified match.
CappedPrice(ingredientName, ingredientCategory, storeData, ingredientPriceCap, unifiedMatch) ==
  IF unifiedMatch # NULL /\ QLt(QZero, unifiedMatch.unitPrice)
  THEN PriceResult(ingredientName, QMin(unifiedMatch.unitPrice, ingredientPriceCap),
                   "unified", unifiedMatch.normalizedUnit)
  ELSE ListedPrice(ingredientName, ingredientCategory, storeData, ingredientPriceCap,
                   BestScored(ingredientName, storeData.promos, ingredientPriceCap),
                   BestScored(ingredientName, storeData.refs, ingredientPriceCap))

findBestPrice(ingredientName, ingredientCategory, storeData) ==
  CappedPrice(ingredientName, ingredientCategory, storeData,
              getIngredientPriceCap(ingredientName),
              findUnifiedPrice(ingredientName, storeData))
(***************************************************************************)
(* The database the run reads: fixture rows of the kinds the code handles  *)
(***************************************************************************)
STORE_IDS == [IGA |-> "iga", METRO |-> "metro", SUPER_C |-> "super-c",
              MAXI |-> "maxi", PROVIGO |-> "provigo", ADONIS |-> "adonis"]

\* The rows of stores and of recipes, by id.
StoreRows == <<"iga", "adonis", "metro", "provigo">>
RecipeRows == <<"rec_pate", "rec_paella">>

\* db.select().from(ingredients): a null category is "".
allIngredients == <<
  [id |-> "ing_boeuf", name |-> "Boeuf haché", category |-> "Viandes"],
  [id |-> "ing_oignon", name |-> "Oignon", category |-> "Fruits et légumes"],
  [id |-> "ing_safran", name |-> "Safran pur", category |-> ""],
  [id |-> "ing_pain", name |-> "Pain", category |-> "Boulangerie"]
>>

\* db.select().from(recipeIngredients): a null unit is "", a null quantity
\* NULL.  ing_inconnu has no row in ingredients.
allRecipeIngredients == <<
  [recipeId |-> "rec_pate", ingredientId |-> "ing_boeuf", quantity |-> QInt(1), unit |-> "lb"],
  [recipeId |-> "rec_pate", ingredientId |-> "ing_oignon", quantity |-> QInt(2), unit |-> ""],
  [recipeId |-> "rec_paella", ingredientId |-> "ing_safran", quantity |-> QInt(2), unit |-> "g"],
  [recipeId |-> "rec_paella", ingredientId |-> "ing_inconnu", quantity |-> NULL, unit |-> ""]
>>

Unified(name, regular, sale, unitPrice, quantity, unit) ==
  [genericProduct |-> name, regularPrice |-> regular, salePrice |-> sale,
   unitPrice |-> unitPrice, quantity |-> quantity, unit |-> unit]

\* The three catalog selects of one store (unified_prices, flyer_promotions
\* still valid today, reference_prices).
StoreCatalog(storeId) ==
  IF storeId = "iga" THEN
    [unified |-> <<Unified("Boeuf haché", Q(699, 100), NULL, Q(1540, 100), QInt(454), "g"),
                   Unified("Oignons jaunes", Q(398, 100), NULL, NULL, QInt(2), "kg")>>,
     promos |-> <<>>,
     refs |-> <<<<"Safran", Q(749, 100)>>>>]
  ELSE IF storeId = "metro" THEN
    [unified |-> <<>>,
     promos |-> <<<<"Boeuf haché maigre", Q(549, 100)>>>>,
     refs |-> <<<<"Oignon", Q(69, 100)>>>>]
  ELSE
    [unified |-> <<Unified("Boeuf haché", Q(100, 100), NULL, Q(220, 100), QInt(454), "g"),
                   Unified("Oignon", Q(50, 100), NULL, NULL, QInt(2), "kg")>>,
     promos |-> <<>>,
     refs |-> <<<<"Safran pur", Q(100, 100)>>>>]

\* The rows of ingredient_equivalences joined with ingredients the source
\* may hold: <<ingredientName, toQuantity, toUnit>>.
EquivalenceVersions == <<(<<<<"Oignon", QInt(200), "g">>>>), <<>>>>

(***************************************************************************)
(* One (recipe, store) pair: aggregation, pricing, total, completeness     *)
(***************************************************************************)
\* aggregatedIngs: the Map's values in insertion order.
RECURSIVE Aggregate(_, _)
Aggregate(recipeIngs, acc) ==
  IF recipeIngs = <<>> THEN acc
  ELSE LET ri == Head(recipeIngs)
           k == FirstIndex(acc, LAMBDA a : a.ingredientId = ri.ingredientId)
       IN  Aggregate(Tail(recipeIngs),
             IF k # 0
             THEN [acc EXCEPT ![k].quantity = QAdd(@, OrOne(ri.quantity))]
             ELSE Append(acc, [ingredientId |-> ri.ingredientId,
                               quantity |-> OrOne(ri.quantity),
                               unit |-> IF ri.unit = "" THEN "unité" ELSE ri.unit]))

recipeIngredientsOf(recipeId) ==
  SelectSeq(allRecipeIngredients, LAMBDA ri : ri.recipeId = recipeId)

\* ingredientMap.get(id): the index in allIngredients, 0 for undefined.
ingredientMap(ingredientId) ==
  FirstIndex(allIngredients, LAMBDA i : i.id = ingredientId)

\* The priceUnit label of a breakdown line.
PriceUnitLabel(pricing, unit) ==
  LET Label(unitLower) ==
        LET anyIn(us) == \E u \in us : Includes(unitLower, u)
        IN  IF anyIn({"g", "kg", "lb", "oz"}) THEN "kg"
            ELSE IF anyIn({"ml", "l", "cl", "tasse", "cup"}) THEN "l"
            ELSE "unité"
  IN  IF pricing.source = "unified" /\ pricing.normalizedUnit # ""
      THEN pricing.normalizedUnit
      ELSE Label(toLowerCase(unit))

\* The body of the loop over aggregatedIngs for one resolved ingredient:
\* the breakdown item, with the capped cost added to totalCost.
\* One entry of ingredientBreakdown, with the capped cost it adds to
\* totalCost.
BreakdownItem(ri, ingredient, pricing, quantity, unit, costForQuantity) ==
  [ingredientId |-> ri.ingredientId,
   ingredientName |-> ingredient.name,
   quantity |-> quantity,
   unit |-> unit,
   unitPrice |-> pricing.price,
   priceUnit |-> PriceUnitLabel(pricing, unit),
   calculatedCost |-> Round2(costForQuantity),
   source |-> pricing.source,
   costForQuantity |-> costForQuantity]

\* The cost of the quantity at the price found, capped.
CostForQuantity(cache, ingredient, pricing, quantity, unit) ==
  QMin(IF pricing.source = "unified" /\ pricing.normalizedUnit # ""
       THEN calculateCostFromUnitPrice(cache, quantity, unit, pricing.price,
                                       ingredient.name, pricing.normalizedUnit)
       ELSE calculateProportionalCost(cache, quantity, unit, pricing.price,
                                      ingredient.name),
       QInt(GLOBAL_MAX_INGREDIENT_COST))

PricedItem(cache, ri, ingredient, pricing, quantity, unit) ==
  BreakdownItem(ri, ingredient, pricing, quantity, unit,
                CostForQuantity(cache, ingredient, pricing, quantity, unit))

PriceIngredient(cache, ri, ingredient, storeData) ==
  PricedItem(cache, ri, ingredient,
             findBestPrice(ingredient.name, ingredient.category, storeData),
             OrOne(ri.quantity), IF ri.unit = "" THEN "unité" ELSE ri.unit)

\* A variant of isComplete that ignores missingCount.
PositiveCost(missingCount, totalCost) == QLt(QZero, totalCost)

\* isComplete = missingCount === 0 && totalCost > 0
IsComplete(missingCount, totalCost) == missingCount = 0 /\ QLt(QZero, totalCost)

\* A variant of the totals that leaves totalCost without its ceiling.
PairTotalsUncapped(unresolved, items) ==
  LET missingCount ==
        unresolved + Cardinality({k \in DOMAIN items : items[k].source = "estimate"})
      totalCost == Round2(SumSeq([k \in DOMAIN items |-> items[k].costForQuantity]))
  IN  [totalCost |-> totalCost,
       missingIngredientsCount |-> missingCount,
       isComplete |-> IsComplete(missingCount, totalCost),
       ingredientBreakdown |->
         [k \in DOMAIN items |->
            [f \in DOMAIN items[k] \ {"costForQuantity"} |-> items[k][f]]]]

\* What one iteration of the recipe loop computes before it persists:
\* totalCost, missingCount, isComplete and the breakdown.
\* The values of one row, given the number of unresolved ingredient ids and
\* the items of the resolved ones.
PairTotals(unresolved, items) ==
  LET missingCount ==
        unresolved + Cardinality({k \in DOMAIN items : items[k].source = "estimate"})
      totalCost ==
        QMin(Round2(SumSeq([k \in DOMAIN items |-> items[k].costForQuantity])),
             QInt(MAX_RECIPE_TOTAL))
  IN  [totalCost |-> totalCost,
       missingIngredientsCount |-> missingCount,
       isComplete |-> IsComplete(missingCount, totalCost),
       ingredientBreakdown |->
         [k \in DOMAIN items |->
            [f \in DOMAIN items[k] \ {"costForQuantity"} |-> items[k][f]]]]

\* The loop over aggregatedIngs: ingredients absent from ingredientMap are
\* counted as missing, the others priced.
PricePair(cache, aggregated, storeData) ==
  LET resolved == SelectSeq(aggregated, LAMBDA ri : ingredientMap(ri.ingredientId) # 0)
  IN  PairTotals(Len(aggregated) - Len(resolved),
                 [k \in DOMAIN resolved |->
                    PriceIngredient(cache, resolved[k],
                                    allIngredients[ingredientMap(resolved[k].ingredientId)],
                                    storeData)])

ComputePair(cache, recipeId, storeId) ==
  PricePair(cache, Aggregate(recipeIngredientsOf(recipeId), <<>>), StoreCatalog(storeId))
(***************************************************************************)
(* Bounds of the model                                                     *)
(***************************************************************************)
\* Invocations of runRecipePriceCalculation alive at once.
MaxRuns == 2
\* The clock advances by the cache TTL, at most MaxTicks times over a behaviour.
MaxTicks == 3
\* Database calls that throw, at most MaxFailures over a behaviour.
MaxFailures == 2

(***************************************************************************)
(* Program constants and the pieces of the run                             *)
(***************************************************************************)
EQUIVALENCE_CACHE_TTL == 5 * 60 * 1000
MAX_CALCULATION_TIME_MS == 10 * 60 * 1000

\* calculationStartTime = null
NoTime == -1

\* The clock at start-up.
Epoch == 1

\* The message of the Error a failing database call throws.
DbError == "db error"

\* getWeekStart(): the Monday-based week of the clock, as the number of the
\* week since the epoch in place of its ISO date.
getWeekStart(t) == ((t \div 86400000) + 3) \div 7

\* Variants of the auto-reset test, for testing what the lock properties
\* depend on: a lock that counts as stuck as soon as it is held, and one that
\* is stuck from the maximum on.
StuckWhenHeld(calculating, startTime, t) == calculating

StuckAtMaximum(calculating, startTime, t) ==
  /\ calculating
  /\ startTime # NoTime /\ startTime # 0
  /\ t - startTime >= MAX_CALCULATION_TIME_MS

\* The auto-reset test at the head of runRecipePriceCalculation: a held
\* lock with a truthy start time, older than the maximum.
IsStuck(calculating, startTime, t) ==
  /\ calculating
  /\ startTime # NoTime /\ startTime # 0
  /\ t - startTime > MAX_CALCULATION_TIME_MS

\* A variant of loadIngredientEquivalences without its early return.
NeverFresh(t, lastLoad, cache) == FALSE

\* The early return of loadIngredientEquivalences.
CacheIsFresh(t, lastLoad, cache) ==
  t - lastLoad < EQUIVALENCE_CACHE_TTL /\ Len(cache) > 0

\* The cache after clear() and the loop of set() over the loaded rows: a
\* row needs a non-null toQuantity and a truthy toUnit; a repeated key keeps
\* its place and takes the later value.
RECURSIVE FillCache(_, _)
FillCache(rows, cache) ==
  IF rows = <<>> THEN cache
  ELSE LET eq == Head(rows)
           key == normalizeText(eq[1])
           k == FirstIndex(cache, LAMBDA e : e[1] = key)
           entry == <<key, eq[2], eq[3]>>
       IN  FillCache(Tail(rows),
             IF eq[2] = NULL \/ eq[3] = "" THEN cache
             ELSE IF k # 0 THEN [cache EXCEPT ![k] = entry]
             ELSE Append(cache, entry))

\* A variant of the filter that removes Adonis only.
WithoutAdonis(rawStores) == SelectSeq(rawStores, LAMBDA s : s # STORE_IDS.ADONIS)

\* rawStores.filter(store => store.id !== ADONIS && store.id !== PROVIGO)
AllowedStores(rawStores) ==
  SelectSeq(rawStores, LAMBDA s : s # STORE_IDS.ADONIS /\ s # STORE_IDS.PROVIGO)

\* The scenarios of the model: one caller over the whole fixture, with
\* failing database calls and a cache that expires; MaxRuns callers over
\* one recipe, with time enough for the lock to expire; or MaxRuns callers
\* over one recipe at one store, with one failing database call and a cache
\* that expires between them; or one caller while the stores table holds
\* excluded stores only.
Scenarios ==
  {[callers |-> 1, recipes |-> RecipeRows, stores |-> StoreRows,
    failures |-> MaxFailures, ticks |-> 1],
   [callers |-> MaxRuns, recipes |-> <<"rec_pate">>, stores |-> <<"adonis", "iga">>,
    failures |-> 0, ticks |-> MaxTicks],
   [callers |-> MaxRuns, recipes |-> <<"rec_pate">>, stores |-> <<"iga">>,
    failures |-> 1, ticks |-> 1],
   [callers |-> 1, recipes |-> RecipeRows, stores |-> <<"adonis", "provigo">>,
    failures |-> 1, ticks |-> 1]}

\* The summary returned while the lock is held.
AlreadyInProgress ==
  [success |-> FALSE, recipesProcessed |-> 0, storesProcessed |-> 0,
   errors |-> <<"Calculation already in progress">>]

\* errors.push(`Recipe ${recipe.id} / Store ${store.id}: ${message}`)
PairError(recipeId, storeId, message) ==
  "Recipe " \o recipeId \o " / Store " \o storeId \o ": " \o message

\* The ids (places in the table) of the rows the existingPrice select
\* matches.
MatchingRows(table, recipeId, storeId, weekOf) ==
  {id \in DOMAIN table : /\ table[id].recipeId = recipeId
                         /\ table[id].storeId = storeId
                         /\ table[id].weekOf = weekOf}

\* The update of the row found, or the insert of a new one.  calculatedAt,
\* which nothing reads, is left out of a row.
Upsert(table, existingId, recipeId, storeId, weekOf, computed) ==
  LET values == [recipeId |-> recipeId, storeId |-> storeId, weekOf |-> weekOf,
                 totalCost |-> computed.totalCost,
                 missingIngredientsCount |-> computed.missingIngredientsCount,
                 isComplete |-> computed.isComplete,
                 ingredientBreakdown |-> computed.ingredientBreakdown]
  IN  IF existingId # 0
      THEN [table EXCEPT ![existingId] =
              [values EXCEPT !.recipeId = table[existingId].recipeId,
                             !.storeId = table[existingId].storeId,
                             !.weekOf = table[existingId].weekOf]]
      ELSE Append(table, values)

\* A variant of the rollup's subquery without is_complete = true.
PositiveRows(table) == {id \in DOMAIN table : QLt(QZero, table[id].totalCost)}

\* The rows the rollup's subquery aggregates:
\* WHERE total_cost > 0 AND is_complete = true.
RollupRows(table) ==
  {id \in DOMAIN table : QLt(QZero, table[id].totalCost) /\ table[id].isComplete}

\* MIN(total_cost) over a non-empty set of rows.
MinTotalCost(table, ids) ==
  LET least == CHOOSE i \in ids : \A j \in ids : QLe(table[i].totalCost, table[j].totalCost)
  IN  table[least].totalCost

\* A variant of the rollup that takes MAX(total_cost).
RollupOfHighest(table, prices) ==
  [rec \in DOMAIN prices |->
     LET ids == {id \in RollupRows(table) : table[id].recipeId = rec}
         most == CHOOSE i \in ids : \A j \in ids : QLe(table[j].totalCost, table[i].totalCost)
     IN  IF ids = {} THEN prices[rec] ELSE table[most].totalCost]

\* UPDATE recipes r SET estimated_price = sub.min_price FROM (... GROUP BY
\* recipe_id) sub WHERE r.id = sub.recipe_id
Rollup(table, prices) ==
  [rec \in DOMAIN prices |->
     LET ids == {id \in RollupRows(table) : table[id].recipeId = rec}
     IN  IF ids = {} THEN prices[rec] ELSE MinTotalCost(table, ids)]

\* ComputePair over the caches, recipes and stores of the model, computed
\* once.
CacheOf(rows) == FillCache(rows, <<>>)

ComputedPairs ==
  [c \in {CacheOf(v) : v \in Range(EquivalenceVersions)} \cup {<<>>},
   rec \in Range(RecipeRows), s \in Range(StoreRows) |-> ComputePair(c, rec, s)]

(***************************************************************************)
(* State                                                                   *)
(***************************************************************************)
VARIABLES
  now,                          \* Date.now()
  isCalculating,                \* the run lock
  calculationStartTime,         \* when the lock was taken, NoTime for null
  ingredientEquivalenceCache,   \* entries <<key, toQuantity, toUnit>>
  lastEquivalenceCacheLoad,
  equivalences,                 \* the rows of the equivalence source
  recipes,                      \* the rows of recipes
  stores,                       \* the rows of stores
  recipeStorePrices,            \* the table recipe_store_prices; a row's id is its place
  estimatedPrice,               \* recipes.estimated_price by recipe id, NULL when unset
  run,                          \* the locals of each invocation
  budget,                       \* the callers, failures and ticks the behaviour has left
  baseline,                     \* history: the outputs of the last clean run
  probe                         \* one application of the pricing functions

vars == <<now, isCalculating, calculationStartTime, ingredientEquivalenceCache,
          lastEquivalenceCacheLoad, equivalences, recipes, stores, recipeStorePrices,
          estimatedPrice, run, budget, baseline, probe>>

lockVars == <<isCalculating, calculationStartTime>>
cacheVars == <<ingredientEquivalenceCache, lastEquivalenceCacheLoad>>
sourceVars == <<equivalences, recipes, stores>>
outputVars == <<recipeStorePrices, estimatedPrice>>

\* An invocation not yet made.  pc is the await the invocation is at;
\* result holds the summary once it has returned.  accepted, autoReset,
\* fatal, rolled, failedPairs, undisturbed and priceBefore are history
\* fields: whether the call took the lock, whether it did so through the
\* auto-reset, whether it ended in the outer catch, whether its rollup ran,
\* the pairs whose iteration threw, whether it ran alone with every call
\* answered over unchanged inputs, the estimated prices when it was called,
\* and whether its reload of the equivalence cache threw.  lockIntact is a
\* history field too: the call took the lock and neither the auto-reset nor
\* forceResetCalculationLock has run since.
IdleRun ==
  [pc |-> "idle", eqNow |-> 0, weekOf |-> 0, allRecipes |-> <<>>, allStores |-> <<>>,
   storeIdx |-> 0, recipeIdx |-> 0,
   computed |-> <<>>, existingId |-> 0, errors |-> <<>>,
   recipesProcessed |-> 0, storesProcessed |-> 0, result |-> <<>>,
   accepted |-> FALSE, autoReset |-> FALSE, fatal |-> FALSE, rolled |-> FALSE,
   failedPairs |-> <<>>, undisturbed |-> FALSE, priceBefore |-> <<>>,
   reloadFailed |-> FALSE, lockIntact |-> FALSE]

Runs == 1..MaxRuns

InProgress(r) == run[r].pc \notin {"idle", "done"}

\* The state at start-up, in one of the scenarios ds.
InitOf(ds) ==
  /\ now = Epoch
  /\ isCalculating = FALSE
  /\ calculationStartTime = NoTime
  /\ ingredientEquivalenceCache = <<>>
  /\ lastEquivalenceCacheLoad = 0
  /\ equivalences = EquivalenceVersions[1]
  /\ \E d \in ds :
       /\ recipes = d.recipes
       /\ stores = d.stores
       /\ estimatedPrice = [rec \in Range(d.recipes) |-> NULL]
       /\ budget = [callers |-> d.callers, failures |-> d.failures, ticks |-> d.ticks]
  /\ run = [r \in Runs |-> IdleRun]
  /\ recipeStorePrices = <<>>
  /\ baseline = <<>>

(***************************************************************************)
(* The preview server (server.ts) over the fixture (mock-data.ts)          *)
(***************************************************************************)
\* export const recipes: the lines carry ingredientId, quantity and unit and
\* the recipes id and title; no line has an id and no recipe a name.
mockRecipes ==
  <<[id |-> "rec_pate_chinois", title |-> "Pâté Chinois Classique",
     ingredients |->
       <<[ingredientId |-> "ing_boeuf", quantity |-> QInt(1), unit |-> "lb"],
         [ingredientId |-> "ing_patates", quantity |-> QInt(1), unit |-> "kg"],
         [ingredientId |-> "ing_mais", quantity |-> QInt(398), unit |-> "ml"]>>],
    [id |-> "rec_paella", title |-> "Paella (Recette Incomplète)",
     ingredients |->
       <<[ingredientId |-> "ing_safran", quantity |-> QInt(2), unit |-> "g"],
         [ingredientId |-> "ing_boeuf", quantity |-> QInt(500), unit |-> "g"]>>]>>

\* export const prices: the price of the exact quantity named, the store ids
\* being the strings of STORE_IDS.
mockPrices ==
  LET P(storeId, ingredientId, cents, quantity, unit) ==
        [storeId |-> storeId, ingredientId |-> ingredientId, price |-> Q(cents, 100),
         quantity |-> QInt(quantity), unit |-> unit]
  IN  <<P("iga", "ing_boeuf", 699, 1, "lb"), P("iga", "ing_patates", 499, 5, "lb"),
        P("iga", "ing_mais", 199, 398, "ml"),
        P("super-c", "ing_boeuf", 444, 1, "lb"), P("super-c", "ing_patates", 299, 5, "lb"),
        P("super-c", "ing_mais", 99, 398, "ml"),
        P("metro", "ing_boeuf", 549, 1, "lb"), P("metro", "ing_patates", 349, 5, "lb"),
        P("metro", "ing_mais", 149, 398, "ml"),
        P("maxi", "ing_boeuf", 499, 1, "lb"), P("maxi", "ing_patates", 249, 5, "lb"),
        P("maxi", "ing_mais", 89, 398, "ml"),
        P("adonis", "ing_boeuf", 100, 1, "lb"), P("adonis", "ing_patates", 99, 5, "lb"),
        P("adonis", "ing_mais", 49, 398, "ml"),
        P("provigo", "ing_boeuf", 599, 1, "lb")>>

getStandardQuantityInGrams(quantity, unit) ==
  LET u == trim(toLowerCase(unit))
  IN  IF u = "kg" THEN QMul(quantity, QInt(1000))
      ELSE IF u \in {"lb", "lbs", "livre"} THEN QMul(quantity, QInt(454))
      ELSE IF u = "l" THEN QMul(quantity, QInt(1000))
      ELSE quantity

\* The handler of GET /calculate over a table of prices: one result for each
\* recipe of the fixture.  A value is compared together with its type, as ===
\* and Array.prototype.includes compare: the id of a line is undefined (the
\* lines have an ingredientId) and the allowed ids are numbers, while the
\* ingredientId and the storeId of a price are strings.  bestDeal is the
\* first price of the least cost (the loop replaces it on a strictly lower
\* cost only); a property that is undefined is an empty sequence.
calculate(priceTable) ==
  LET allowedStoreIds == <<1, 2, 3, 4>>
      Str(v) == <<"string", v>>
      Num(v) == <<"number", v>>
      Undefined == <<"undefined">>
      IdOf(ingredient) ==
        IF "id" \in DOMAIN ingredient THEN Str(ingredient.id) ELSE Undefined
      NameOf(recipe) == IF "name" \in DOMAIN recipe THEN <<recipe.name>> ELSE <<>>
      Allowed(p) == \E k \in DOMAIN allowedStoreIds : Num(allowedStoreIds[k]) = Str(p.storeId)
      Available(ingredient) ==
        SelectSeq(priceTable, LAMBDA p : Str(p.ingredientId) = IdOf(ingredient) /\ Allowed(p))
      CostForRecipe(p, ingredient) ==
        QMul(QDiv(p.price, getStandardQuantityInGrams(p.quantity, p.unit)),
             getStandardQuantityInGrams(ingredient.quantity, ingredient.unit))
      Best(ingredient) ==
        LET availablePrices == Available(ingredient)
        IN  availablePrices[
              CHOOSE i \in DOMAIN availablePrices :
                /\ \A j \in DOMAIN availablePrices :
                     QLe(CostForRecipe(availablePrices[i], ingredient),
                         CostForRecipe(availablePrices[j], ingredient))
                /\ \A j \in 1..(i - 1) :
                     QLt(CostForRecipe(availablePrices[i], ingredient),
                         CostForRecipe(availablePrices[j], ingredient))]
      Calculated(ingredient) ==
        IF Len(Available(ingredient)) = 0
        THEN [ingredientId |-> ingredient.ingredientId, quantity |-> ingredient.quantity,
              unit |-> ingredient.unit,
              error |-> <<"Non disponible dans les épiceries sélectionnées">>,
              bestDeal |-> <<>>, bestPrice |-> QZero]
        ELSE LET p == Best(ingredient)
             IN  [ingredientId |-> ingredient.ingredientId,
                  quantity |-> ingredient.quantity, unit |-> ingredient.unit,
                  error |-> <<>>,
                  bestDeal |-> <<[storeId |-> p.storeId, price |-> p.price, unit |-> p.unit,
                                  costCalculated |-> Round2(CostForRecipe(p, ingredient))]>>,
                  bestPrice |-> CostForRecipe(p, ingredient)]
      Sum[items \in Seq(Nat \X Nat)] ==
        IF items = <<>> THEN QZero ELSE QAdd(Head(items), Sum[Tail(items)])
      Result(recipe) ==
        LET calculatedIngredients ==
              [k \in DOMAIN recipe.ingredients |-> Calculated(recipe.ingredients[k])]
            isRecipeValid ==
              \A k \in DOMAIN calculatedIngredients : calculatedIngredients[k].error = <<>>
            recipeTotalPrice ==
              Sum[[k \in DOMAIN calculatedIngredients |-> calculatedIngredients[k].bestPrice]]
        IN  [recipeName |-> NameOf(recipe),
             ingredients |->
               [k \in DOMAIN calculatedIngredients |->
                  [f \in DOMAIN calculatedIngredients[k] \ {"bestPrice"} |->
                     calculatedIngredients[k][f]]],
             totalPrice |-> IF isRecipeValid THEN Round2(recipeTotalPrice) ELSE QZero]
  IN  [r \in DOMAIN mockRecipes |-> Result(mockRecipes[r])]

\* No application of the pricing functions under way; the fields are those of
\* one iteration of the loop over aggregatedIngs (ingredient, storeData,
\* pricing, quantity, unit, cost) and of one iteration of the recipe loop
\* (lines, row), and of one iteration of the loop over the promotions
\* (ingredientName, promoName, score), and of one request to the preview
\* server (priceTable, results).  ingredient is a place in allIngredients;
\* pricing, cost, row, score and results are empty until computed.
NoProbe ==
  [stage |-> "none", ingredient |-> 0, storeData |-> <<>>, pricing |-> <<>>,
   quantity |-> NULL, unit |-> "", cache |-> <<>>, cost |-> <<>>,
   lines |-> <<>>, row |-> <<>>, ingredientName |-> "", promoName |-> "",
   score |-> <<>>, priceTable |-> <<>>, results |-> <<>>]

Init == InitOf(Scenarios) /\ probe = NoProbe

(***************************************************************************)
(* Steps of runRecipePriceCalculation                                      *)
(***************************************************************************)
\* The locals on entering the try block: today and weekOf are read, then
\* the base tables are awaited.
EnterTry(rn, t) == [rn EXCEPT !.pc = "base", !.weekOf = getWeekStart(t)]

\* A variant of the loop that adds the recipes of each store to
\* recipesProcessed.
NextIterationCounting(rn, cache) ==
  IF rn.recipeIdx < Len(rn.allRecipes)
  THEN [rn EXCEPT !.pc = "select",
                  !.recipeIdx = @ + 1,
                  !.existingId = 0,
                  !.computed = <<ComputedPairs[cache, rn.allRecipes[rn.recipeIdx + 1],
                                               rn.allStores[rn.storeIdx]]>>]
  ELSE LET after == [rn EXCEPT !.recipesProcessed = @ + Len(rn.allRecipes),
                               !.recipeIdx = 0, !.existingId = 0, !.computed = <<>>]
       IN  IF rn.storeIdx < Len(rn.allStores)
           THEN [after EXCEPT !.pc = "store", !.storeIdx = @ + 1]
           ELSE [after EXCEPT !.pc = "rollup"]

\* The locals once the iteration of recipe rn.recipeIdx at store
\* rn.storeIdx is over (0: the store's catalog has just been loaded): the
\* next recipe is priced and its existingPrice select awaited, or the next
\* store's catalog is awaited, or the rollup is.
NextIteration(rn, cache) ==
  IF rn.recipeIdx < Len(rn.allRecipes)
  THEN [rn EXCEPT !.pc = "select",
                  !.recipeIdx = @ + 1,
                  !.existingId = 0,
                  !.computed = <<ComputedPairs[cache, rn.allRecipes[rn.recipeIdx + 1],
                                               rn.allStores[rn.storeIdx]]>>]
  ELSE LET after == [rn EXCEPT !.recipesProcessed = Len(rn.allRecipes),
                               !.recipeIdx = 0, !.existingId = 0, !.computed = <<>>]
       IN  IF rn.storeIdx < Len(rn.allStores)
           THEN [after EXCEPT !.pc = "store", !.storeIdx = @ + 1]
           ELSE [after EXCEPT !.pc = "rollup"]

\* A variant of the per-pair catch that records nothing in errors.
PairUnrecorded(rn, cache, message) ==
  NextIteration(
    [rn EXCEPT !.failedPairs = Append(@, <<rn.allRecipes[rn.recipeIdx],
                                           rn.allStores[rn.storeIdx]>>)],
    cache)

\* The catch of the per-pair try: one entry in errors, then the next
\* iteration.
PairCaught(rn, cache, message) ==
  LET recipeId == rn.allRecipes[rn.recipeIdx]
      storeId == rn.allStores[rn.storeIdx]
  IN  NextIteration(
        [rn EXCEPT !.errors = Append(@, PairError(recipeId, storeId, message)),
                   !.failedPairs = Append(@, <<recipeId, storeId>>)],
        cache)

\* A variant of the outer catch's summary that drops the per-pair errors.
FatalOnly(rn, message) ==
  [success |-> FALSE, recipesProcessed |-> rn.recipesProcessed,
   storesProcessed |-> rn.storesProcessed, errors |-> <<message>>]

\* The summary of the outer catch.
FatalSummary(rn, message) ==
  [success |-> FALSE, recipesProcessed |-> rn.recipesProcessed,
   storesProcessed |-> rn.storesProcessed, errors |-> Append(rn.errors, message)]

\* The summary of the normal return.
SuccessSummary(rn) ==
  [success |-> TRUE, recipesProcessed |-> rn.recipesProcessed,
   storesProcessed |-> rn.storesProcessed, errors |-> rn.errors]

\* A variant of the finally block that leaves the lock as it is.
LockKept == isCalculating' = isCalculating /\ calculationStartTime' = calculationStartTime

\* finally { isCalculating = false; calculationStartTime = null }
ReleaseLock ==
  /\ isCalculating' = FALSE
  /\ calculationStartTime' = NoTime

\* Every other invocation in progress has now run beside another one, or
\* over a change of the inputs.
Disturb(rs) ==
  [r \in Runs |-> IF r \in rs /\ InProgress(r)
                  THEN [run[r] EXCEPT !.undisturbed = FALSE] ELSE run[r]]

\* A call of runRecipePriceCalculation, to its first await or its early
\* return.
Request(r) ==
  /\ run[r].pc = "idle"
  /\ r <= budget.callers
  /\ \A o \in Runs : o < r => run[o].pc # "idle"
  /\ LET stuck == IsStuck(isCalculating, calculationStartTime, now)
         held == isCalculating /\ ~stuck
         others == {o \in Runs : o # r /\ InProgress(o)}
         started == [run[r] EXCEPT !.accepted = TRUE, !.autoReset = stuck,
                                   !.undisturbed = others = {},
                                   !.priceBefore = estimatedPrice,
                                   !.lockIntact = TRUE]
         disturbed == Disturb(others)
         reset == [o \in Runs |-> IF stuck /\ o \in others
                                  THEN [disturbed[o] EXCEPT !.lockIntact = FALSE]
                                  ELSE disturbed[o]]
     IN  IF held
         THEN /\ run' = [run EXCEPT ![r] = [@ EXCEPT !.pc = "done",
                                                     !.result = <<AlreadyInProgress>>]]
              /\ UNCHANGED <<lockVars, baseline>>
         ELSE /\ isCalculating' = TRUE
              /\ calculationStartTime' = now
              /\ run' = [reset EXCEPT ![r] =
                           IF CacheIsFresh(now, lastEquivalenceCacheLoad,
                                           ingredientEquivalenceCache)
                           THEN EnterTry(started, now)
                           ELSE [started EXCEPT !.pc = "equiv", !.eqNow = now]]
              /\ baseline' = IF others = {} THEN baseline ELSE <<>>
  /\ UNCHANGED <<probe, now, cacheVars, sourceVars, outputVars, budget>>

\* The select of loadIngredientEquivalences returns: the cache is rebuilt.
EquivLoaded(r) ==
  /\ run[r].pc = "equiv"
  /\ ingredientEquivalenceCache' = FillCache(equivalences, <<>>)
  /\ lastEquivalenceCacheLoad' = run[r].eqNow
  /\ run' = [run EXCEPT ![r] = EnterTry(@, now)]
  /\ UNCHANGED <<probe, now, lockVars, sourceVars, outputVars, budget, baseline>>

\* A database call may throw while the failure budget lasts.
MayFail == budget.failures > 0

\* A variant of the failed select that leaves the cache cleared, as a
\* throw after clear() would.
EquivFailedCleared(r) ==
  /\ run[r].pc = "equiv"
  /\ MayFail
  /\ budget' = [budget EXCEPT !.failures = @ - 1]
  /\ run' = [run EXCEPT ![r] = EnterTry([@ EXCEPT !.undisturbed = FALSE,
                                                  !.reloadFailed = TRUE], now)]
  /\ ingredientEquivalenceCache' = <<>>
  /\ UNCHANGED <<probe, now, lockVars, lastEquivalenceCacheLoad, sourceVars, outputVars,
                 baseline>>

\* The select of loadIngredientEquivalences throws: caught and logged.
EquivFailed(r) ==
  /\ run[r].pc = "equiv"
  /\ MayFail
  /\ budget' = [budget EXCEPT !.failures = @ - 1]
  /\ run' = [run EXCEPT ![r] = EnterTry([@ EXCEPT !.undisturbed = FALSE,
                                                  !.reloadFailed = TRUE], now)]
  /\ UNCHANGED <<probe, now, lockVars, cacheVars, sourceVars, outputVars, baseline>>

\* The outer catch and the finally block.
Fatal(r, message) ==
  /\ MayFail
  /\ budget' = [budget EXCEPT !.failures = @ - 1]
  /\ run' = [run EXCEPT ![r] = [@ EXCEPT !.pc = "done", !.fatal = TRUE,
                                         !.result = <<FatalSummary(run[r], message)>>]]
  /\ ReleaseLock
  /\ baseline' = <<>>
  /\ UNCHANGED <<probe, now, cacheVars, sourceVars, outputVars>>

\* recipes, stores, ingredients and recipeIngredients are loaded.
BaseLoaded(r) ==
  /\ run[r].pc = "base"
  /\ LET loaded == [run[r] EXCEPT !.allRecipes = recipes,
                                  !.allStores = AllowedStores(stores)]
     IN  run' = [run EXCEPT ![r] =
                   IF Len(loaded.allStores) = 0 THEN [loaded EXCEPT !.pc = "rollup"]
                   ELSE [loaded EXCEPT !.pc = "store", !.storeIdx = 1]]
  /\ UNCHANGED <<probe, now, lockVars, cacheVars, sourceVars, outputVars, budget, baseline>>

BaseFailed(r) ==
  /\ run[r].pc = "base"
  /\ Fatal(r, DbError)

\* The three catalogs of the store are loaded; its first recipe is priced.
StoreLoaded(r) ==
  /\ run[r].pc = "store"
  /\ run' = [run EXCEPT ![r] = NextIteration(@, ingredientEquivalenceCache)]
  /\ UNCHANGED <<probe, now, lockVars, cacheVars, sourceVars, outputVars, budget, baseline>>

StoreFailed(r) ==
  /\ run[r].pc = "store"
  /\ Fatal(r, DbError)

\* The existingPrice select returns one of the rows of the key, if any
\* (limit(1), no order).
Selected(r) ==
  /\ run[r].pc = "select"
  /\ LET found == MatchingRows(recipeStorePrices, run[r].allRecipes[run[r].recipeIdx],
                               run[r].allStores[run[r].storeIdx], run[r].weekOf)
     IN  \E id \in (IF found = {} THEN {0} ELSE found) :
           run' = [run EXCEPT ![r] = [@ EXCEPT !.pc = "write", !.existingId = id]]
  /\ UNCHANGED <<probe, now, lockVars, cacheVars, sourceVars, outputVars, budget, baseline>>

\* The update or the insert returns; the next recipe is priced.
Written(r) ==
  /\ run[r].pc = "write"
  /\ recipeStorePrices' =
       Upsert(recipeStorePrices, run[r].existingId, run[r].allRecipes[run[r].recipeIdx],
              run[r].allStores[run[r].storeIdx], run[r].weekOf, run[r].computed[1])
  /\ run' = [run EXCEPT ![r] =
               NextIteration([@ EXCEPT !.storesProcessed = @ + 1],
                             ingredientEquivalenceCache)]
  /\ UNCHANGED <<probe, now, lockVars, cacheVars, sourceVars, estimatedPrice, budget, baseline>>

\* The select, the update or the insert throws: the per-pair catch.
PairFailed(r) ==
  /\ run[r].pc \in {"select", "write"}
  /\ MayFail
  /\ budget' = [budget EXCEPT !.failures = @ - 1]
  /\ run' = [run EXCEPT ![r] = PairCaught(@, ingredientEquivalenceCache, DbError)]
  /\ UNCHANGED <<probe, now, lockVars, cacheVars, sourceVars, outputVars, baseline>>

\* The rollup statement returns; the summary is returned through finally.
RollupDone(r) ==
  /\ run[r].pc = "rollup"
  /\ estimatedPrice' = Rollup(recipeStorePrices, estimatedPrice)
  /\ run' = [run EXCEPT ![r] = [@ EXCEPT !.pc = "done", !.rolled = TRUE,
                                         !.result = <<SuccessSummary(run[r])>>]]
  /\ ReleaseLock
  /\ baseline' = IF run[r].undisturbed /\ run[r].errors = <<>>
                 THEN <<[rows |-> recipeStorePrices, prices |-> estimatedPrice']>>
                 ELSE <<>>
  /\ UNCHANGED <<probe, now, cacheVars, sourceVars, recipeStorePrices, budget>>

RollupFailed(r) ==
  /\ run[r].pc = "rollup"
  /\ Fatal(r, DbError)

\* The caller has the summary; the invocation is over.
Return(r) ==
  /\ run[r].pc = "done"
  /\ run' = [run EXCEPT ![r] = IdleRun]
  /\ UNCHANGED <<probe, now, lockVars, cacheVars, sourceVars, outputVars, budget, baseline>>

\* forceResetCalculationLock (and forceResetCalculationFlag, the same
\* assignments).
forceResetCalculationLock ==
  /\ isCalculating
  /\ isCalculating' = FALSE
  /\ calculationStartTime' = NoTime
  /\ run' = [o \in Runs |-> IF InProgress(o) THEN [run[o] EXCEPT !.lockIntact = FALSE]
                                              ELSE run[o]]
  /\ UNCHANGED <<probe, now, cacheVars, sourceVars, outputVars, budget, baseline>>

\* Time passes.
Tick ==
  /\ budget.ticks > 0
  /\ budget' = [budget EXCEPT !.ticks = @ - 1]
  /\ now' = now + EQUIVALENCE_CACHE_TTL
  /\ UNCHANGED <<probe, lockVars, cacheVars, sourceVars, outputVars, run, baseline>>

\* The equivalence rows of the source are edited, to the next version.
UpdateEquivalences ==
  /\ \E i \in 1..(Len(EquivalenceVersions) - 1) :
       /\ equivalences = EquivalenceVersions[i]
       /\ equivalences' = EquivalenceVersions[i + 1]
  /\ run' = Disturb(Runs)
  /\ baseline' = <<>>
  /\ UNCHANGED <<probe, now, lockVars, cacheVars, recipes, stores, outputVars, budget>>

RunStep(r) ==
  \/ Request(r)
  \/ EquivLoaded(r)
  \/ EquivFailed(r)
  \/ BaseLoaded(r)
  \/ BaseFailed(r)
  \/ StoreLoaded(r)
  \/ StoreFailed(r)
  \/ Selected(r)
  \/ Written(r)
  \/ PairFailed(r)
  \/ RollupDone(r)
  \/ RollupFailed(r)
  \/ Return(r)

Next ==
  \/ \E r \in Runs : RunStep(r)
  \/ forceResetCalculationLock
  \/ Tick
  \/ UpdateEquivalences

Spec == Init /\ [][Next]_vars

(***************************************************************************)
(* The fair specification: a database call that is awaited returns or      *)
(* throws, and the event loop then runs the continuation of the await.     *)
(***************************************************************************)
\* The continuation of the await invocation r is at.
Resume(r) ==
  \/ EquivLoaded(r)
  \/ EquivFailed(r)
  \/ BaseLoaded(r)
  \/ BaseFailed(r)
  \/ StoreLoaded(r)
  \/ StoreFailed(r)
  \/ Selected(r)
  \/ Written(r)
  \/ PairFailed(r)
  \/ RollupDone(r)
  \/ RollupFailed(r)

\* The scenarios of the fair specification, over one recipe and one store:
\* one caller with failing database calls and a cache that expires, or
\* MaxRuns callers that overlap after a reset of the lock.
FairScenarios ==
  {[callers |-> 1, recipes |-> <<"rec_pate">>, stores |-> <<"iga">>,
    failures |-> MaxFailures, ticks |-> 1],
   [callers |-> MaxRuns, recipes |-> <<"rec_pate">>, stores |-> <<"iga">>,
    failures |-> 0, ticks |-> 0]}

FairInit == InitOf(FairScenarios) /\ probe = NoProbe

FairSpec == FairInit /\ [][Next]_vars /\ \A r \in Runs : WF_vars(Resume(r))

(***************************************************************************)
(* The pricing functions on their own: findBestPrice, the cost of a        *)
(* quantity at the price found, and the values of one row, applied as one  *)
(* iteration of the loops of the run applies them, to catalogs, quantities *)
(* and units drawn from the sets below.                                    *)
(***************************************************************************)
\* Entries of one kind (unified, promo, reference) in a store's catalog.
MaxEntries == 2

\* The sequences of at most n elements of S.
RECURSIVE SeqsUpTo(_, _)
SeqsUpTo(S, n) ==
  IF n = 0 THEN {<<>>}
  ELSE LET shorter == SeqsUpTo(S, n - 1)
       IN  shorter \cup {Append(s, x) : s \in shorter, x \in S}

\* The lists of at most MaxEntries distinct entries of pool, in every order.
Listings(pool) ==
  {[k \in DOMAIN s |-> pool[s[k]]] :
     s \in {a \in SeqsUpTo(DOMAIN pool, MaxEntries) :
              \A i, j \in DOMAIN a : a[i] = a[j] => i = j}}

\* Rows of unified_prices a store may hold about an ingredient, and about
\* others: an exact name with a unit price, a longer name on sale, a row
\* without a price, a row without a name, a price above the cap, a row sold
\* by the piece, a row sold by the pound.
UnifiedRows(ingredientId) ==
  IF ingredientId = "ing_boeuf" THEN
    <<Unified("Boeuf haché", Q(699, 100), NULL, Q(1540, 100), QInt(454), "g"),
      Unified("Boeuf haché mi-maigre", Q(899, 100), Q(799, 100), NULL, QInt(1), "kg"),
      Unified("", Q(100, 100), NULL, NULL, QInt(1), "kg")>>
  ELSE IF ingredientId = "ing_oignon" THEN
    <<Unified("Oignon", NULL, NULL, NULL, QInt(1), "kg"),
      Unified("Oignons jaunes", Q(998, 100), NULL, NULL, QInt(2), "kg"),
      Unified("Oignon vert", Q(129, 100), NULL, NULL, NULL, "")>>
  ELSE IF ingredientId = "ing_safran" THEN
    <<Unified("Safran pur", QInt(120), QInt(99), NULL, QInt(1), "g"),
      Unified("Boeuf haché", Q(699, 100), NULL, Q(1540, 100), QInt(454), "g")>>
  ELSE
    <<Unified("Pain", Q(349, 100), NULL, NULL, NULL, ""),
      Unified("Pain tranché", QInt(4), Q(299, 100), NULL, QInt(675), "g"),
      Unified("Pain de campagne", Q(499, 100), NULL, NULL, QInt(1), "lb")>>

\* Rows of flyer_promotions still valid: <<productName, promoPrice>>.
PromoRows(ingredientId) ==
  IF ingredientId = "ing_boeuf" THEN
    <<<<"Boeuf haché maigre", Q(549, 100)>>, <<"Boeuf haché extra", Q(499, 100)>>,
      <<"Boeuf haché de luxe", QInt(55)>>>>
  ELSE IF ingredientId = "ing_oignon" THEN
    <<<<"Oignons", Q(50, 100)>>, <<"Oignon rouge", Q(69, 100)>>,
      <<"Oignon espagnol", Q(450, 100)>>>>
  ELSE IF ingredientId = "ing_safran" THEN
    <<<<"Riz au safran", Q(249, 100)>>, <<"Couches Pampers safran pur", Q(199, 100)>>>>
  ELSE
    \* two for 5.99
    <<<<"Pain baguette", Q(599, 200)>>, <<"Pain de ménage", Q(329, 100)>>>>

\* Rows of reference_prices: <<productName, price>>.
RefRows(ingredientId) ==
  IF ingredientId = "ing_boeuf" THEN <<<<"Boeuf haché", Q(649, 100)>>>>
  ELSE IF ingredientId = "ing_oignon" THEN <<<<"Oignon", Q(69, 100)>>>>
  ELSE IF ingredientId = "ing_safran" THEN
    <<<<"Safran", Q(749, 100)>>, <<"Safran pur bio", Q(999, 100)>>>>
  ELSE <<<<"Pain", Q(399, 100)>>, <<"Pain de savon", Q(99, 100)>>>>

\* The catalogs a store may hold while the ingredient is priced.
CatalogsFor(ingredientId) ==
  {[unified |-> u, promos |-> p, refs |-> r] :
     u \in Listings(UnifiedRows(ingredientId)),
     p \in Listings(PromoRows(ingredientId)),
     r \in Listings(RefRows(ingredientId))}

\* The quantities and units of a recipe line, after `|| 1` and `|| 'unité'`.
LineQuantities == {Q(1, 2), QInt(3), QInt(100)}
LineUnits == {"unité", "kg", "pincée", "livre", "tranche"}

\* The equivalence caches a run may price with.
ProbeCaches == {<<>>, CacheOf(EquivalenceVersions[1])}

Line(ingredientId, quantity, unit) ==
  [recipeId |-> "rec_essai", ingredientId |-> ingredientId, quantity |-> quantity,
   unit |-> unit]

\* The recipe-ingredient rows of one recipe: those of the recipes of the
\* database, none, a line repeated beside an unknown ingredient, four
\* ingredients in bulk, and lines repeated in other units with a quantity
\* of zero among them.
RecipeLines ==
  {recipeIngredientsOf(rec) : rec \in Range(RecipeRows)} \cup
  {<<>>,
   <<Line("ing_oignon", QInt(1), ""), Line("ing_inconnu", NULL, ""),
     Line("ing_oignon", QInt(2), "")>>,
   <<Line("ing_boeuf", QInt(100), "kg"), Line("ing_oignon", QInt(100), "kg"),
     Line("ing_safran", QInt(100), "kg"), Line("ing_pain", QInt(100), "kg")>>,
   <<Line("ing_oignon", QInt(2), "kg"), Line("ing_pain", QInt(1), "tranche"),
     Line("ing_oignon", QZero, "g"), Line("ing_pain", QInt(2), "")>>}

\* The applications to start from: the pricing of one ingredient at one
\* catalog, or of the lines of one recipe at the catalog of one store.
IngredientProbes ==
  UNION {{[NoProbe EXCEPT !.stage = "ingredient", !.ingredient = i, !.storeData = c] :
            c \in CatalogsFor(allIngredients[i].id)} : i \in DOMAIN allIngredients}

\* The catalog of a store whose unified_prices carry the units of its
\* flyers: by the pound with a unit price, by the piece.
ImperialCatalog ==
  [unified |-> <<Unified("Boeuf haché", Q(699, 100), NULL, Q(1540, 100), QInt(1), "lb"),
                 Unified("Oignon", Q(50, 100), NULL, NULL, QInt(1), "each")>>,
   promos |-> <<>>,
   refs |-> <<>>]

RecipeProbes ==
  {[NoProbe EXCEPT !.stage = "recipe", !.lines = l, !.storeData = d, !.cache = c] :
     l \in RecipeLines,
     d \in {StoreCatalog(s) : s \in Range(StoreRows)} \cup {ImperialCatalog},
     c \in ProbeCaches}

\* Names of ingredients to score, those of the database among them: a name
\* of one short word, names with a word of the list of excluded products.
ScoredNames ==
  Range([i \in DOMAIN allIngredients |-> allIngredients[i].name]) \cup
  {"Ail", "Thé matcha", "Tablette de chocolat", "Pomme de terre", "Huile d'olive"}

\* Names of products to score them against: the names of the catalogs, and
\* names that contain an ingredient's name inside a word, beside other
\* words, or beside a word of the list of excluded products.
CandidateNames ==
  UNION {Range([k \in DOMAIN PromoRows(allIngredients[i].id) |->
                  PromoRows(allIngredients[i].id)[k][1]]) : i \in DOMAIN allIngredients}
  \cup {"Taille-haie", "Pain à l'ail", "Savon à l'huile d'olive", "Vélo stationnaire",
        "Vêtement de pluie", "Patates douces", "Olives vertes", "OIGNON", "Ailes de poulet",
        "Détergent Pain de savon", "Patates pommes de terre jaunes"}

ScoreProbes ==
  {[NoProbe EXCEPT !.stage = "match", !.ingredientName = x, !.promoName = c] :
     x \in ScoredNames, c \in ScoredNames \cup CandidateNames}

\* Tables of prices to answer a request from: the prices the fixture has at
\* each set of its stores, the whole fixture among them.
MockStoreIds == {"iga", "super-c", "metro", "maxi", "adonis", "provigo"}

PriceTables ==
  {SelectSeq(mockPrices, LAMBDA p : p.storeId \in S) : S \in SUBSET MockStoreIds}

RequestProbes ==
  {[NoProbe EXCEPT !.stage = "request", !.priceTable = t] : t \in PriceTables}

\* No run is under way while the functions are applied.
NoCaller == [callers |-> 0, recipes |-> <<>>, stores |-> <<>>, failures |-> 0, ticks |-> 0]

PricingInit ==
  /\ InitOf({NoCaller})
  /\ probe \in IngredientProbes \cup RecipeProbes \cup ScoreProbes \cup RequestProbes

runVars == <<now, isCalculating, calculationStartTime, ingredientEquivalenceCache,
             lastEquivalenceCacheLoad, equivalences, recipes, stores, recipeStorePrices,
             estimatedPrice, run, budget, baseline>>

\* const pricing = findBestPrice(ingredient.name, ingredient.category, storeData)
SelectPrice ==
  /\ probe.stage = "ingredient"
  /\ probe' = [probe EXCEPT
       !.stage = "priced",
       !.pricing = <<findBestPrice(allIngredients[probe.ingredient].name,
                                   allIngredients[probe.ingredient].category,
                                   probe.storeData)>>]
  /\ UNCHANGED runVars

\* The cost of a quantity of the ingredient at the price found, capped:
\* costForQuantity as it is added to totalCost.
ComputeCost ==
  /\ probe.stage = "priced"
  /\ \E quantity \in LineQuantities, unit \in LineUnits, cache \in ProbeCaches :
       probe' = [probe EXCEPT
         !.stage = "costed", !.quantity = quantity, !.unit = unit, !.cache = cache,
         !.cost = <<CostForQuantity(cache, allIngredients[probe.ingredient],
                                    probe.pricing[1], quantity, unit)>>]
  /\ UNCHANGED runVars

\* One iteration of the recipe loop up to the values it persists.
PriceRecipe ==
  /\ probe.stage = "recipe"
  /\ probe' = [probe EXCEPT
       !.stage = "totalled",
       !.row = <<PricePair(probe.cache, Aggregate(probe.lines, <<>>), probe.storeData)>>]
  /\ UNCHANGED runVars

\* const score = scorePromoMatch(ingredientName, promo.productName)
ScoreMatch ==
  /\ probe.stage = "match"
  /\ probe' = [probe EXCEPT
       !.stage = "scored",
       !.score = <<scorePromoMatch(probe.ingredientName, probe.promoName)>>]
  /\ UNCHANGED runVars

\* app.get('/calculate', ...): res.json(results)
Calculate ==
  /\ probe.stage = "request"
  /\ probe' = [probe EXCEPT !.stage = "responded", !.results = calculate(probe.priceTable)]
  /\ UNCHANGED runVars

PricingNext ==
  \/ SelectPrice
  \/ ComputeCost
  \/ PriceRecipe
  \/ ScoreMatch
  \/ Calculate

PricingSpec == PricingInit /\ [][PricingNext]_vars

(***************************************************************************)
(* Properties                                                              *)
(***************************************************************************)
\* The step in which invocation r is called.
Called(r) == run[r].pc = "idle" /\ run'[r].pc # "idle"

\* The step in which invocation r returns its summary.
Completes(r) == InProgress(r) /\ run'[r].pc = "done"

\* The lock is held and was taken at most the maximum time ago.
HeldWithinMaximum ==
  /\ isCalculating
  /\ calculationStartTime # NoTime
  /\ now - calculationStartTime <= MAX_CALCULATION_TIME_MS

\* C1: a call made while the lock is held, and has been for at most 10
\* minutes, returns {success: false, recipesProcessed: 0, storesProcessed: 0,
\* errors: ['Calculation already in progress']} and changes neither the
\* lock, nor the equivalence cache, nor a row of recipe_store_prices, nor an
\* estimated price.
C1_RejectedCallHasNoEffect ==
  [][\A r \in Runs :
       Called(r) /\ HeldWithinMaximum =>
         /\ run'[r].pc = "done"
         /\ run'[r].result =
              <<[success |-> FALSE, recipesProcessed |-> 0, storesProcessed |-> 0,
                 errors |-> <<"Calculation already in progress">>]>>
         /\ UNCHANGED <<lockVars, cacheVars, outputVars>>]_vars

\* A call has been rejected while another invocation, holding the lock, has
\* already written rows.
C1_Witness ==
  \E r, o \in Runs :
    /\ run[r].pc = "done" /\ ~run[r].accepted
    /\ InProgress(o) /\ HeldWithinMaximum
    /\ recipeStorePrices # <<>>

\* C2: in every reachable state at most one accepted invocation is between
\* its acceptance and its completion.
C2_AtMostOneRunInProgress ==
  Cardinality({r \in Runs : run[r].accepted /\ InProgress(r)}) <= 1

\* C3: every accepted invocation eventually completes: it has returned a
\* summary and, as it returns, the lock is released (isCalculating = false
\* and calculationStartTime = null), whether it ends normally, with
\* per-pair failures, or in the outer catch.
C3_AcceptedRunCompletes ==
  /\ \A r \in Runs :
       (run[r].accepted /\ InProgress(r)) ~> (run[r].pc = "done" /\ run[r].result # <<>>)
  /\ [][\A r \in Runs :
          Completes(r) =>
            /\ ~isCalculating' /\ calculationStartTime' = NoTime
            /\ run'[r].result # <<>>]_vars

\* An invocation with a failed pair has ended in the outer catch, the lock
\* released.
C3_Witness ==
  \E r \in Runs :
    /\ run[r].pc = "done" /\ run[r].accepted
    /\ run[r].failedPairs # <<>> /\ run[r].fatal
    /\ ~isCalculating /\ calculationStartTime = NoTime

\* C4: a call made while the lock is held is accepted if and only if the
\* lock has been held for more than 10 minutes; it then holds the lock with
\* the time of the call as its start time.  A lock held for 10 minutes or
\* less rejects the call.
C4_AcceptedIffHeldTooLong ==
  [][\A r \in Runs :
       Called(r) /\ isCalculating =>
         /\ run'[r].accepted <=> now - calculationStartTime > MAX_CALCULATION_TIME_MS
         /\ run'[r].accepted => isCalculating' /\ calculationStartTime' = now
         /\ ~run'[r].accepted => run'[r].pc = "done" /\ UNCHANGED lockVars]_vars

\* An invocation has taken over, with a fresh start time, the lock another
\* invocation still in progress had held for more than 10 minutes.
C4_Witness ==
  \E r, o \in Runs :
    /\ r # o
    /\ run[r].accepted /\ run[r].autoReset /\ InProgress(r)
    /\ calculationStartTime > MAX_CALCULATION_TIME_MS
    /\ InProgress(o)

\* C5: the table recipe_store_prices holds at most one row for each
\* (recipeId, storeId, weekOf).
C5_OneRowPerKey ==
  \A i, j \in DOMAIN recipeStorePrices :
    (/\ recipeStorePrices[i].recipeId = recipeStorePrices[j].recipeId
     /\ recipeStorePrices[i].storeId = recipeStorePrices[j].storeId
     /\ recipeStorePrices[i].weekOf = recipeStorePrices[j].weekOf) => i = j

\* The pairs an invocation iterates over.
PairsOf(rn) == Len(rn.allRecipes) * Len(rn.allStores)

\* C6: when the iteration of one (recipe, store) pair throws, the failure is
\* caught: exactly one entry naming the recipe and the store is appended to
\* errors, nothing is written, and the invocation goes on with the next
\* iteration; and an invocation that meets no failure outside the per-pair
\* loop has gone through every pair, has executed the rollup and returns
\* success: true with one entry per failed pair.
C6_PairFailureIsContained ==
  [][\A r \in Runs :
       /\ Len(run'[r].failedPairs) > Len(run[r].failedPairs) =>
            /\ run'[r].errors =
                 Append(run[r].errors,
                        "Recipe " \o run[r].allRecipes[run[r].recipeIdx]
                          \o " / Store " \o run[r].allStores[run[r].storeIdx]
                          \o ": " \o DbError)
            /\ run'[r].failedPairs =
                 Append(run[r].failedPairs, <<run[r].allRecipes[run[r].recipeIdx],
                                              run[r].allStores[run[r].storeIdx]>>)
            /\ run'[r].pc \in {"select", "store", "rollup"}
            /\ run'[r].storesProcessed = run[r].storesProcessed
            /\ UNCHANGED <<lockVars, outputVars>>
       /\ (Completes(r) /\ ~run'[r].fatal) =>
            /\ run'[r].rolled
            /\ run'[r].result[1].success
            /\ run'[r].result[1].errors = run[r].errors
            /\ Len(run[r].errors) = Len(run[r].failedPairs)
            /\ run[r].storesProcessed + Len(run[r].failedPairs) = PairsOf(run[r])]_vars

\* An invocation with a failed pair has returned success: true after its
\* rollup, the other pairs written.
C6_Witness ==
  \E r \in Runs :
    /\ run[r].pc = "done" /\ run[r].rolled
    /\ run[r].failedPairs # <<>>
    /\ run[r].result[1].success
    /\ run[r].storesProcessed > 0

\* C7: when a call outside the per-pair loop fails (the base tables, the
\* catalogs of a store, the rollup), the invocation ends there: it writes
\* nothing more, it returns success: false with the per-pair errors
\* collected so far followed by the fatal message, and the lock is
\* released.
C7_FatalFailureAborts ==
  [][\A r \in Runs :
       (run'[r].fatal /\ ~run[r].fatal) =>
         /\ run[r].pc \in {"base", "store", "rollup"}
         /\ run'[r].pc = "done"
         /\ ~run'[r].rolled
         /\ run'[r].result =
              <<[success |-> FALSE,
                 recipesProcessed |-> run[r].recipesProcessed,
                 storesProcessed |-> run[r].storesProcessed,
                 errors |-> Append(run[r].errors, DbError)]>>
         /\ UNCHANGED outputVars
         /\ ~isCalculating' /\ calculationStartTime' = NoTime]_vars

\* An invocation that had caught the failure of a pair has ended in the
\* outer catch, with both entries in errors.
C7_Witness ==
  \E r \in Runs :
    /\ run[r].pc = "done" /\ run[r].fatal
    /\ Len(run[r].result[1].errors) = 2
    /\ run[r].failedPairs # <<>>
    /\ ~isCalculating

\* C8: an invocation that runs alone, with every call answered, after such
\* an invocation of the same week and with no input changed in between,
\* leaves in recipe_store_prices the rows (keys, totalCost,
\* missingIngredientsCount, isComplete, breakdown) and in recipes the
\* estimated prices the earlier one left.
C8_SecondRunChangesNothing ==
  [][\A r \in Runs :
       (/\ Completes(r) /\ run'[r].rolled
        /\ run[r].undisturbed /\ run[r].errors = <<>>
        /\ baseline # <<>>) =>
         /\ recipeStorePrices' = baseline[1].rows
         /\ estimatedPrice' = baseline[1].prices]_vars

\* The ingredients of the recipe of a row: the distinct ingredient ids of
\* its recipe-ingredient rows.
IngredientIdsOf(recipeId) ==
  {allRecipeIngredients[k].ingredientId :
     k \in {j \in DOMAIN allRecipeIngredients :
              allRecipeIngredients[j].recipeId = recipeId}}

\* The entries of a row's breakdown priced from the category estimate.
EstimatedItems(row) ==
  {k \in DOMAIN row.ingredientBreakdown : row.ingredientBreakdown[k].source = "estimate"}

\* C9, as stated: a row is complete if and only if none of its ingredients
\* was priced from the category estimate and its totalCost is positive.
C9_CompleteIffNoEstimate ==
  \A id \in DOMAIN recipeStorePrices :
    LET row == recipeStorePrices[id]
    IN  row.isComplete <=> (EstimatedItems(row) = {} /\ QLt(QZero, row.totalCost))

\* C9, amended: a row is complete if and only if its missingIngredientsCount
\* is 0 and its totalCost is positive, where missingIngredientsCount counts
\* the ingredients priced from the category estimate and the ingredient ids
\* that have no row in ingredients (which have no entry in the breakdown).
C9_CompleteIffNothingMissing ==
  \A id \in DOMAIN recipeStorePrices :
    LET row == recipeStorePrices[id]
        unresolved == Cardinality(IngredientIdsOf(row.recipeId)) - Len(row.ingredientBreakdown)
    IN  /\ row.missingIngredientsCount = Cardinality(EstimatedItems(row)) + unresolved
        /\ row.isComplete <=> (row.missingIngredientsCount = 0 /\ QLt(QZero, row.totalCost))

\* The table holds a complete row, and a row of positive totalCost without
\* an estimate that is not complete: one of its ingredient ids is unknown.
C9_Witness ==
  /\ \E id \in DOMAIN recipeStorePrices : recipeStorePrices[id].isComplete
  /\ \E id \in DOMAIN recipeStorePrices :
       LET row == recipeStorePrices[id]
       IN  /\ ~row.isComplete
           /\ EstimatedItems(row) = {}
           /\ QLt(QZero, row.totalCost)
           /\ row.missingIngredientsCount = 1

\* C10: a row of a recipe with an ingredient for which the store has no
\* eligible unified, promotion or reference price (the ingredient is priced
\* from the estimate) has missingIngredientsCount >= 1 and isComplete =
\* false; and whenever the rollup sets the estimated price of a recipe, it
\* sets it to the least totalCost of the complete rows of the recipe, so an
\* incomplete row's total is never taken.
C10_EstimateNeverRolledUp ==
  /\ [](\A id \in DOMAIN recipeStorePrices :
          EstimatedItems(recipeStorePrices[id]) # {} =>
            /\ recipeStorePrices[id].missingIngredientsCount >= 1
            /\ ~recipeStorePrices[id].isComplete)
  /\ [][\A rec \in DOMAIN estimatedPrice :
          estimatedPrice'[rec] # estimatedPrice[rec] =>
            LET complete == {id \in DOMAIN recipeStorePrices :
                               /\ recipeStorePrices[id].recipeId = rec
                               /\ recipeStorePrices[id].isComplete
                               /\ recipeStorePrices[id].missingIngredientsCount = 0}
            IN  /\ \E id \in complete :
                     estimatedPrice'[rec] = recipeStorePrices[id].totalCost
                /\ \A id \in complete :
                     QLe(estimatedPrice'[rec], recipeStorePrices[id].totalCost)]_vars

\* A rollup has run over a row priced from the estimate, the only row of
\* positive totalCost of its recipe besides another incomplete one, and the
\* recipe has no estimated price; another recipe has one.
C10_Witness ==
  \E r \in Runs :
    /\ run[r].pc = "done" /\ run[r].rolled
    /\ \E id \in DOMAIN recipeStorePrices :
         /\ EstimatedItems(recipeStorePrices[id]) # {}
         /\ QLt(QZero, recipeStorePrices[id].totalCost)
         /\ estimatedPrice[recipeStorePrices[id].recipeId] = NULL
    /\ \E rec \in DOMAIN estimatedPrice : estimatedPrice[rec] # NULL

\* The complete rows of a recipe in a table.
CompleteRows(table, rec) ==
  {id \in DOMAIN table : table[id].recipeId = rec /\ table[id].isComplete}

\* C11: when an invocation returns success: true, every recipe with at least
\* one complete row has as estimated price the least totalCost of its
\* complete rows, and every recipe without a complete row has the estimated
\* price it had when the invocation was called.
C11_RollupTakesLeastCompleteTotal ==
  [][\A r \in Runs :
       (Completes(r) /\ run'[r].result[1].success) =>
         \A rec \in DOMAIN estimatedPrice :
           LET complete == CompleteRows(recipeStorePrices', rec)
           IN  IF complete # {}
               THEN /\ \E id \in complete :
                         estimatedPrice'[rec] = recipeStorePrices'[id].totalCost
                    /\ \A id \in complete :
                         QLe(estimatedPrice'[rec], recipeStorePrices'[id].totalCost)
               ELSE estimatedPrice'[rec] = run[r].priceBefore[rec]]_vars

\* An invocation has returned success: true over a recipe with two complete
\* rows of different totals, whose estimated price is the lesser one, and a
\* recipe without a complete row, which has none.
C11_Witness ==
  \E r \in Runs :
    /\ run[r].pc = "done" /\ run[r].rolled /\ run[r].result[1].success
    /\ \E rec \in DOMAIN estimatedPrice :
         \E i, j \in CompleteRows(recipeStorePrices, rec) :
           /\ QLt(recipeStorePrices[i].totalCost, recipeStorePrices[j].totalCost)
           /\ estimatedPrice[rec] # NULL
           /\ QLt(estimatedPrice[rec], recipeStorePrices[j].totalCost)
    /\ \E rec \in DOMAIN estimatedPrice :
         /\ CompleteRows(recipeStorePrices, rec) = {}
         /\ \E id \in DOMAIN recipeStorePrices : recipeStorePrices[id].recipeId = rec
         /\ estimatedPrice[rec] = NULL

\* The stores to leave out.
Disallowed == {"adonis", "provigo"}

\* C12: no row of recipe_store_prices is of Adonis or Provigo; no invocation
\* iterates over either store, so that neither's catalog is loaded or
\* priced; and whenever the estimated price of a recipe is set, it is the
\* totalCost of a row of an allowed store.
C12_DisallowedStoresNeverPriced ==
  /\ [](\A id \in DOMAIN recipeStorePrices :
          recipeStorePrices[id].storeId \notin Disallowed)
  /\ [](\A r \in Runs : \A k \in DOMAIN run[r].allStores :
          run[r].allStores[k] \notin Disallowed)
  /\ [][\A rec \in DOMAIN estimatedPrice :
          estimatedPrice'[rec] # estimatedPrice[rec] =>
            \E id \in DOMAIN recipeStorePrices :
              /\ recipeStorePrices[id].recipeId = rec
              /\ recipeStorePrices[id].storeId \notin Disallowed
              /\ recipeStorePrices[id].totalCost = estimatedPrice'[rec]]_vars

\* The stores hold Adonis and Provigo, where the recipe would cost less
\* than anywhere else; an invocation has returned after its rollup and the
\* recipe's estimated price is above that cost.
C12_Witness ==
  /\ Disallowed \subseteq Range(stores)
  /\ \E r \in Runs : run[r].pc = "done" /\ run[r].rolled
  /\ \E rec \in DOMAIN estimatedPrice :
       /\ estimatedPrice[rec] # NULL
       /\ \A s \in Disallowed :
            QLt(ComputedPairs[ingredientEquivalenceCache, rec, s].totalCost,
                estimatedPrice[rec])

\* A number of dollars that is a whole number of cents.
WholeCents(a) == 100 % a[2] = 0

\* C13: the cost of a quantity of an ingredient at the price found for it,
\* as it is added to the total, is at least 0.01, at most
\* GLOBAL_MAX_INGREDIENT_COST, and a whole number of cents, whatever the
\* catalog, the quantity, the unit and the way the cost is computed.
C13_CostWithinBoundsInCents ==
  probe.stage = "costed" =>
    /\ QLe(Q(1, 100), probe.cost[1])
    /\ QLe(probe.cost[1], QInt(GLOBAL_MAX_INGREDIENT_COST))
    /\ WholeCents(probe.cost[1])

\* C14: the totalCost of the row computed for a recipe at a store is at
\* least 0 and at most MAX_RECIPE_TOTAL, however many ingredients the recipe
\* has and whatever they cost.
C14_TotalCostWithinCeiling ==
  probe.stage = "totalled" =>
    /\ QLe(QZero, probe.row[1].totalCost)
    /\ QLe(probe.row[1].totalCost, QInt(MAX_RECIPE_TOTAL))

\* A row has been computed whose lines add up to more than MAX_RECIPE_TOTAL
\* and whose totalCost is MAX_RECIPE_TOTAL.
C14_Witness ==
  /\ probe.stage = "totalled"
  /\ probe.row[1].totalCost = QInt(MAX_RECIPE_TOTAL)
  /\ QLt(QInt(MAX_RECIPE_TOTAL),
         SumSeq([k \in DOMAIN probe.row[1].ingredientBreakdown |->
                   probe.row[1].ingredientBreakdown[k].calculatedCost]))

\* The ingredient whose price the probe holds.
Probed == allIngredients[probe.ingredient]

\* C15: the price findBestPrice returns for an ingredient at a store
\* catalog, from any source, is at most the cap of the first entry of the
\* cap table that matches the ingredient's name, and at most
\* GLOBAL_MAX_INGREDIENT_PRICE when no entry matches.
C15_PriceWithinCap ==
  probe.stage = "priced" =>
    /\ probe.pricing[1].source \in {"unified", "promo", "reference", "estimate"}
    /\ QLe(probe.pricing[1].price, getIngredientPriceCap(Probed.name))
    /\ (\A k \in DOMAIN INGREDIENT_PRICE_CAPS :
          ~EitherIncludes(normalizeText(Probed.name),
                          normalizeText(INGREDIENT_PRICE_CAPS[k][1])))
         => QLe(probe.pricing[1].price, QInt(GLOBAL_MAX_INGREDIENT_PRICE))

\* A unified price has been returned at the cap for a catalog entry whose
\* unit price is above it.
C15_Witness ==
  /\ probe.stage = "priced"
  /\ probe.pricing[1].source = "unified"
  /\ probe.pricing[1].price = getIngredientPriceCap(Probed.name)
  /\ QLt(getIngredientPriceCap(Probed.name),
         findUnifiedPrice(Probed.name, probe.storeData).unitPrice)

\* salePrice ?? regularPrice ?? 0 of a unified entry.
EffectivePrice(entry) == Coalesce(entry.salePrice, Coalesce(entry.regularPrice, QZero))

\* A named unified entry whose name matches the ingredient's: equal to it,
\* containing it, contained in it, or containing one of its words of three
\* letters or more.
MatchesUnified(ingredientName, entry) ==
  /\ entry.genericProduct # ""
  /\ \/ EitherIncludes(normalizeText(entry.genericProduct), normalizeText(ingredientName))
     \/ \E w \in Range(SelectLen(splitWords(normalizeText(ingredientName)), 3)) :
          Includes(normalizeText(entry.genericProduct), w)

\* A matching unified entry with a positive effective price and a positive
\* unit price: the one it carries, or its effective price over its quantity.
PricedEntry(ingredientName, entry) ==
  /\ MatchesUnified(ingredientName, entry)
  /\ QLt(QZero, EffectivePrice(entry))
  /\ entry.unitPrice # NULL => QLt(QZero, entry.unitPrice)

\* A priced entry sold by weight or volume, whose unit price resolves to a
\* price per kg or per L.
PricedMatch(ingredientName, entry) ==
  /\ PricedEntry(ingredientName, entry)
  /\ toLowerCase(entry.unit) \in {"g", "kg", "ml", "l"}

\* C17: whenever at least one matching entry of the unified catalog has a
\* positive effective price (the sale price when present, else the regular
\* price) and a resolvable per-kg or per-L unit price, findBestPrice returns
\* a price of source 'unified'.
C17_UnifiedWheneverPricedMatch ==
  probe.stage = "priced" =>
    ((\E k \in DOMAIN probe.storeData.unified :
        PricedMatch(Probed.name, probe.storeData.unified[k]))
       => probe.pricing[1].source = "unified")

\* An entry of the promotions or of the reference prices that may be
\* selected for the ingredient: priced at most its cap and scoring at least
\* 0.5.
Eligible(ingredientName, entry) ==
  /\ QLe(entry[2], getIngredientPriceCap(ingredientName))
  /\ QLe(Q(1, 2), scorePromoMatch(ingredientName, entry[1]))

\* The first step, in the order unified, promo, reference, with an eligible
\* entry for the ingredient in the catalog; 'estimate' when none has one.
FirstStepWithEntry(ingredientName, storeData) ==
  IF \E k \in DOMAIN storeData.unified : PricedEntry(ingredientName, storeData.unified[k])
  THEN "unified"
  ELSE IF \E k \in DOMAIN storeData.promos : Eligible(ingredientName, storeData.promos[k])
  THEN "promo"
  ELSE IF \E k \in DOMAIN storeData.refs : Eligible(ingredientName, storeData.refs[k])
  THEN "reference"
  ELSE "estimate"

\* C16: findBestPrice returns a positive price for every ingredient and
\* catalog, and the source of the price is the first step, in the order
\* unified, promo, reference, that has an eligible entry, 'estimate' exactly
\* when no step has one.
C16_SourceIsFirstStepWithEntry ==
  probe.stage = "priced" =>
    /\ QLt(QZero, probe.pricing[1].price)
    /\ probe.pricing[1].source = FirstStepWithEntry(Probed.name, probe.storeData)

\* The price is that of an entry that may be selected, of the highest score
\* among those that may, and of the lowest price among those of that score.
IsBestEntryPrice(ingredientName, entries, price) ==
  \E k \in DOMAIN entries :
    /\ entries[k][2] = price
    /\ Eligible(ingredientName, entries[k])
    /\ \A j \in DOMAIN entries :
         Eligible(ingredientName, entries[j]) =>
           /\ QLe(scorePromoMatch(ingredientName, entries[j][1]),
                  scorePromoMatch(ingredientName, entries[k][1]))
           /\ scorePromoMatch(ingredientName, entries[j][1])
                = scorePromoMatch(ingredientName, entries[k][1])
                => QLe(entries[k][2], entries[j][2])

\* C18: a price of source 'promo' is that of a promotion priced at most the
\* cap and scoring at least 0.5, of the highest score among such promotions
\* and, at that score, of the lowest price, in whatever order the catalog
\* lists them; and the same holds of source 'reference' and the reference
\* prices.
C18_BestEntryOfStepSelected ==
  probe.stage = "priced" =>
    /\ probe.pricing[1].source = "promo" =>
         IsBestEntryPrice(Probed.name, probe.storeData.promos, probe.pricing[1].price)
    /\ probe.pricing[1].source = "reference" =>
         IsBestEntryPrice(Probed.name, probe.storeData.refs, probe.pricing[1].price)

\* A promotion has been selected that is listed after a dearer promotion of
\* the same score.
C18_Witness ==
  /\ probe.stage = "priced"
  /\ probe.pricing[1].source = "promo"
  /\ Len(probe.storeData.promos) = 2
  /\ Eligible(Probed.name, probe.storeData.promos[1])
  /\ scorePromoMatch(Probed.name, probe.storeData.promos[1][1])
       = scorePromoMatch(Probed.name, probe.storeData.promos[2][1])
  /\ QLt(probe.storeData.promos[2][2], probe.storeData.promos[1][2])
  /\ probe.pricing[1].price = probe.storeData.promos[2][2]

\* An accepted call reaches loadIngredientEquivalences in the step that
\* accepts it; it queries the source when it is left at the select.
Accesses(r) == Called(r) /\ run'[r].accepted
Queries(r) == run'[r].pc = "equiv"

\* No load has succeeded yet.
NeverPopulated == lastEquivalenceCacheLoad = 0

\* C19 as stated: an access queries the source only if the cache has never
\* been populated, or more than EQUIVALENCE_CACHE_TTL has elapsed since the
\* last successful load and the cache is non-empty; every other access
\* leaves the cache and the time of the last load unchanged.
C19_QueriesOnlyWhenExpiredAndFilled ==
  [][\A r \in Runs :
       Accesses(r) =>
         /\ Queries(r) =>
              \/ NeverPopulated
              \/ /\ now - lastEquivalenceCacheLoad > EQUIVALENCE_CACHE_TTL
                 /\ Len(ingredientEquivalenceCache) > 0
         /\ ~Queries(r) => UNCHANGED cacheVars]_vars

\* C19 amended: an access queries the source only if the cache is empty or
\* at least EQUIVALENCE_CACHE_TTL has elapsed since the last successful
\* load; every other access, that is every access less than the TTL after
\* a successful load that left the cache non-empty, returns without
\* querying and leaves the cache and the time of the last load unchanged.
C19_QueriesOnlyWhenEmptyOrExpired ==
  [][\A r \in Runs :
       Accesses(r) =>
         /\ Queries(r) =>
              \/ Len(ingredientEquivalenceCache) = 0
              \/ now - lastEquivalenceCacheLoad >= EQUIVALENCE_CACHE_TTL
         /\ (Len(ingredientEquivalenceCache) > 0
               /\ now - lastEquivalenceCacheLoad < EQUIVALENCE_CACHE_TTL)
              => ~Queries(r) /\ UNCHANGED cacheVars]_vars

\* After a successful load that left entries in the cache, a call has been
\* accepted exactly the TTL later and is querying the source.
C19_Witness ==
  /\ ~NeverPopulated
  /\ Len(ingredientEquivalenceCache) > 0
  /\ \E r \in Runs :
       /\ run[r].pc = "equiv"
       /\ run[r].eqNow - lastEquivalenceCacheLoad = EQUIVALENCE_CACHE_TTL

\* The select of loadIngredientEquivalences has thrown under invocation r.
ReloadFails(r) ==
  /\ run[r].pc = "equiv" /\ run'[r].pc # "equiv"
  /\ budget'.failures < budget.failures

\* C20: when the reload of the equivalence cache fails, the invocation goes
\* on into its try block with no error recorded, the cache holds exactly
\* the entries it held before the attempt and the time of the last
\* successful load is unchanged, so that an access that would have reloaded
\* before the failure reloads after it.
C20_FailedReloadKeepsCache ==
  [][\A r \in Runs :
       ReloadFails(r) =>
         /\ run'[r].pc = "base" /\ ~run'[r].fatal
         /\ run'[r].errors = run[r].errors /\ run'[r].result = <<>>
         /\ ingredientEquivalenceCache' = ingredientEquivalenceCache
         /\ lastEquivalenceCacheLoad' = lastEquivalenceCacheLoad
         /\ ~CacheIsFresh(now, lastEquivalenceCacheLoad, ingredientEquivalenceCache)
              => ~CacheIsFresh(now', lastEquivalenceCacheLoad',
                               ingredientEquivalenceCache')]_vars

\* An invocation whose reload threw over a cache that held entries, loaded
\* before the time of its attempt, has returned success: true, and the
\* cache still holds entries loaded at that earlier time.
C20_Witness ==
  \E r \in Runs :
    /\ run[r].reloadFailed
    /\ run[r].pc = "done" /\ run[r].result[1].success
    /\ Len(ingredientEquivalenceCache) > 0
    /\ lastEquivalenceCacheLoad # 0
    /\ lastEquivalenceCacheLoad < run[r].eqNow

\* The product name contains an entry of the list of excluded products,
\* letter case apart.
IsExcludedProduct(promoName) ==
  \E x \in DOMAIN EXCLUDED_PRODUCT_KEYWORDS :
    \/ Includes(toLowerCase(promoName), EXCLUDED_PRODUCT_KEYWORDS[x])
    \/ Includes(normalizeText(promoName), EXCLUDED_PRODUCT_KEYWORDS[x])

\* C21 as stated: the score of an ingredient name against itself is 1, and
\* every score is at least 0 and at most 1.
C21_OwnNameScoresOne ==
  probe.stage = "scored" =>
    /\ QLe(QZero, probe.score[1]) /\ QLe(probe.score[1], QOne)
    /\ probe.promoName = probe.ingredientName => probe.score[1] = QOne

\* C21 amended: the score of an ingredient name against itself is 1 when
\* the name contains no entry of the list of excluded products, and every
\* score is at least 0 and at most 1.
C21_OwnNameScoresOneUnlessExcluded ==
  probe.stage = "scored" =>
    /\ QLe(QZero, probe.score[1]) /\ QLe(probe.score[1], QOne)
    /\ (probe.promoName = probe.ingredientName /\ ~IsExcludedProduct(probe.promoName))
         => probe.score[1] = QOne

\* A name of several words has been scored against itself at 1.
C21_Witness ==
  /\ probe.stage = "scored"
  /\ probe.promoName = probe.ingredientName
  /\ Len(splitWords(normalizeText(probe.ingredientName))) > 1
  /\ ~IsExcludedProduct(probe.promoName)
  /\ probe.score[1] = QOne

\* The price is that of an entry of the list that may be selected and is
\* not an excluded product.
IsFoodEntryPrice(ingredientName, entries, price) ==
  \E k \in DOMAIN entries :
    /\ entries[k][2] = price
    /\ Eligible(ingredientName, entries[k])
    /\ ~IsExcludedProduct(entries[k][1])

\* C22: a product name that contains an entry of the list of excluded
\* products scores 0 against every ingredient name, even one equal to it or
\* contained in it as a word; and a price of source 'promo' or 'reference' is
\* that of an entry that is not an excluded product.
C22_ExcludedProductNeverSelected ==
  /\ (probe.stage = "scored" /\ IsExcludedProduct(probe.promoName))
       => probe.score[1] = QZero
  /\ probe.stage = "priced" =>
       /\ probe.pricing[1].source = "promo" =>
            IsFoodEntryPrice(Probed.name, probe.storeData.promos, probe.pricing[1].price)
       /\ probe.pricing[1].source = "reference" =>
            IsFoodEntryPrice(Probed.name, probe.storeData.refs, probe.pricing[1].price)

\* A price has been found at a catalog without a unified price, whose
\* cheapest reference price is that of an excluded product with the
\* ingredient's name as a word: the price is that of the other reference.
C22_Witness ==
  /\ probe.stage = "priced"
  /\ probe.pricing[1].source = "reference"
  /\ \E k, j \in DOMAIN probe.storeData.refs :
       /\ IsExcludedProduct(probe.storeData.refs[k][1])
       /\ matchesWholeWord(normalizeText(probe.storeData.refs[k][1]),
                           normalizeText(Probed.name))
       /\ QLt(probe.storeData.refs[k][2], probe.storeData.refs[j][2])
       /\ probe.pricing[1].price = probe.storeData.refs[j][2]

\* A recipe unit with an entry in the mass table or the volume table, the
\* pinch apart.
IsMassOrVolumeUnit(unit) ==
  /\ \/ Lookup(UNIT_TO_G, trim(toLowerCase(unit))) # NULL
     \/ Lookup(UNIT_TO_ML, trim(toLowerCase(unit))) # NULL
  /\ trim(toLowerCase(unit)) \notin {"pincée", "pincee", "pinch"}

\* The probe's price is costed from a unit price per kg or per L.
CostedFromUnitPrice ==
  probe.pricing[1].source = "unified" /\ probe.pricing[1].normalizedUnit # ""

\* C23: when the recipe unit is a mass or volume unit of the conversion
\* tables, the cost does not depend on the weight of one item of the
\* ingredient, cached or not, and the cost of a package price is the one
\* computed from the package size, even for an ingredient sold by count.
C23_MassOrVolumeUnitNotCostedByCount ==
  (probe.stage = "costed" /\ IsMassOrVolumeUnit(probe.unit)) =>
    /\ \A cache \in ProbeCaches :
         probe.cost[1] = CostForQuantity(cache, Probed, probe.pricing[1],
                                         probe.quantity, probe.unit)
    /\ ~CostedFromUnitPrice =>
         probe.cost[1] =
           QMin(CostBySize(probe.quantity, probe.pricing[1].price,
                           trim(toLowerCase(probe.unit)),
                           StandardSizeOrDefault(getProductStandardSize(Probed.name), TRUE,
                                                 normalizeText(Probed.name),
                                                 trim(toLowerCase(probe.unit)))),
                QInt(GLOBAL_MAX_INGREDIENT_COST))

\* The grams of one unit of the ingredient: the cached equivalence if one
\* resolves, else the static weight if there is one, else 100 g.
GramsPerUnit(cache, ingredientName) ==
  IF getUnitWeightInGrams(cache, ingredientName) # NULL
  THEN getUnitWeightInGrams(cache, ingredientName)
  ELSE QInt(100)

\* C24: at a unified price per kg, a quantity in a count-based recipe unit
\* costs price x quantity x gramsPerUnit / 1000, in cents and at least one
\* cent, capped like every cost, where gramsPerUnit is the cached
\* equivalence, else the static weight, else 100 g.
C24_CountCostedThroughGramsPerUnit ==
  (/\ probe.stage = "costed"
   /\ CostedFromUnitPrice /\ probe.pricing[1].normalizedUnit = "kg"
   /\ trim(toLowerCase(probe.unit)) \in COUNTING_UNITS)
  => probe.cost[1] =
       QMin(AtLeastOneCent(
              QMul(probe.pricing[1].price,
                   PerThousand(QMul(probe.quantity,
                                    GramsPerUnit(probe.cache, Probed.name))))),
            QInt(GLOBAL_MAX_INGREDIENT_COST))

\* The lines of the probe's recipe for one ingredient.
LinesOf(ingredientId) ==
  SelectSeq(probe.lines, LAMBDA ri : ri.ingredientId = ingredientId)

\* The ingredients of the probe's recipe that are in the database and whose
\* lines all carry a quantity.
MeasuredIngredients ==
  {id \in {probe.lines[k].ingredientId : k \in DOMAIN probe.lines} :
     /\ ingredientMap(id) # 0
     /\ \A k \in DOMAIN LinesOf(id) : LinesOf(id)[k].quantity # NULL}

\* C25: the lines of a recipe for one ingredient are priced as one line of
\* the breakdown, whose quantity is the sum of theirs, zero included, and
\* whose unit is that of the first of them ('unité' when it has none).
C25_RepeatedLinesSummed ==
  probe.stage = "totalled" =>
    \A id \in MeasuredIngredients :
      /\ Cardinality({k \in DOMAIN probe.row[1].ingredientBreakdown :
                        probe.row[1].ingredientBreakdown[k].ingredientId = id}) = 1
      /\ \A k \in DOMAIN probe.row[1].ingredientBreakdown :
           probe.row[1].ingredientBreakdown[k].ingredientId = id =>
             /\ probe.row[1].ingredientBreakdown[k].quantity
                  = SumSeq([j \in DOMAIN LinesOf(id) |-> LinesOf(id)[j].quantity])
             /\ probe.row[1].ingredientBreakdown[k].unit
                  = IF LinesOf(id)[1].unit = "" THEN "unité" ELSE LinesOf(id)[1].unit

\* The stores the preview is meant to price at: IGA, Metro, Super C and Maxi.
PreviewStores == {"iga", "metro", "super-c", "maxi"}

\* The prices of the table for an ingredient at the allowed stores.
AllowedRows(ingredientId) ==
  SelectSeq(probe.priceTable,
            LAMBDA p : p.ingredientId = ingredientId /\ p.storeId \in PreviewStores)

\* The cost of the quantity of a recipe line at a price, both in grams.
NormalizedCost(p, item) ==
  QMul(QDiv(p.price, getStandardQuantityInGrams(p.quantity, p.unit)),
       getStandardQuantityInGrams(item.quantity, item.unit))

\* The lines of the answer: <<recipe, line>> places.
AnsweredLines ==
  UNION {{<<r, k>> : k \in DOMAIN probe.results[r].ingredients} : r \in DOMAIN probe.results}

\* C26: in the answer of /calculate, a recipe line carries the 'not
\* available' error and no bestDeal exactly when the table has no price for
\* its ingredient at an allowed store; otherwise it carries no error and a
\* bestDeal from an allowed store whose cost is the least normalized cost
\* over the prices of the ingredient at the allowed stores.
C26_ErrorIffNoAllowedPrice ==
  probe.stage = "responded" =>
    \A at \in AnsweredLines :
      LET item == probe.results[at[1]].ingredients[at[2]]
          rows == AllowedRows(item.ingredientId)
      IN  IF rows = <<>>
          THEN item.error # <<>> /\ item.bestDeal = <<>>
          ELSE /\ item.error = <<>>
               /\ item.bestDeal # <<>>
               /\ item.bestDeal[1].storeId \in PreviewStores
               /\ \E i \in DOMAIN rows :
                    /\ item.bestDeal[1].costCalculated = Round2(NormalizedCost(rows[i], item))
                    /\ \A j \in DOMAIN rows :
                         QLe(NormalizedCost(rows[i], item), NormalizedCost(rows[j], item))

\* The prices of the fixture at Super C, where beef is 4.44 a pound.
SuperCPrices == SelectSeq(mockPrices, LAMBDA p : p.storeId = "super-c")

\* C27: answered from the prices of Super C (beef 4.44 per lb, potatoes 2.99
\* per 5 lb, corn 0.99 per 398 ml), the recipe of 1 lb of beef, 1 kg of
\* potatoes and 398 ml of corn totals 4.44 + (2.99/5 x 2.20) + 0.99 to the
\* cent, 6.75, with no error on any of its lines.
C27_FixtureRecipeTotal ==
  (probe.stage = "responded" /\ probe.priceTable = SuperCPrices) =>
    /\ probe.results[1].totalPrice =
         Round2(QAdd(QAdd(Q(444, 100), QMul(QDiv(Q(299, 100), QInt(5)), Q(220, 100))),
                     Q(99, 100)))
    /\ \A k \in DOMAIN probe.results[1].ingredients :
         probe.results[1].ingredients[k].error = <<>>


\* The units a price is quoted by.
CanonicalPriceUnits == {"kg", "l", "unité"}

\* C28: every line of the breakdown of a row has a priceUnit among 'kg', 'l'
\* and 'unité', and every price found in unified_prices a normalizedUnit
\* among them, whatever the unit of the entry matched.
C28_PriceUnitCanonical ==
  /\ probe.stage = "totalled" =>
       \A k \in DOMAIN probe.row[1].ingredientBreakdown :
         probe.row[1].ingredientBreakdown[k].priceUnit \in CanonicalPriceUnits
  /\ (probe.stage \in {"priced", "costed"} /\ probe.pricing[1].source = "unified") =>
       probe.pricing[1].normalizedUnit \in CanonicalPriceUnits


\* C29: while an accepted invocation is in progress and neither the
\* auto-reset nor forceResetCalculationLock has run since it took the lock,
\* every call (that does not itself auto-reset a lock held for more than
\* the maximum) returns 'Calculation already in progress'; the return of an
\* older invocation, declared stuck, does not free the lock for the call.
C29_CallRejectedWhileRunHoldsLock ==
  [][\A r \in Runs :
       (/\ Called(r)
        /\ ~IsStuck(isCalculating, calculationStartTime, now)
        /\ \E o \in Runs : InProgress(o) /\ run[o].lockIntact) =>
         run'[r].pc = "done" /\ run'[r].result = <<AlreadyInProgress>>]_vars


\* The (recipe, store) pairs a run has to price: every recipe at every
\* store that is not excluded.
PairsToPrice == {<<rec, st>> : rec \in Range(recipes), st \in Range(AllowedStores(stores))}

\* C30: in the summary of a run that returns success: true, storesProcessed
\* is the number of (recipe, store) pairs persisted without error (each has
\* its row), storesProcessed plus the number of errors is the number of
\* stores not excluded times the number of recipes, and recipesProcessed is
\* the number of recipes if a store is not excluded, 0 if every store is.
C30_SummaryCountsPairs ==
  [][\A r \in Runs :
       (Completes(r) /\ run'[r].result[1].success) =>
         LET summary == run'[r].result[1]
             persisted == PairsToPrice \ Range(run'[r].failedPairs)
         IN  /\ summary.storesProcessed = Cardinality(persisted)
             /\ \A p \in persisted :
                  \E id \in DOMAIN recipeStorePrices' :
                    /\ recipeStorePrices'[id].recipeId = p[1]
                    /\ recipeStorePrices'[id].storeId = p[2]
             /\ summary.storesProcessed + Len(summary.errors) =
                  Len(AllowedStores(stores)) * Len(recipes)
             /\ summary.recipesProcessed =
                  IF Len(AllowedStores(stores)) > 0 THEN Len(recipes) ELSE 0]_vars

\* A run has returned success: true with pairs persisted and a pair in
\* errors, at stores of which some are excluded.
C30_Witness ==
  \E r \in Runs :
    /\ run[r].pc = "done"
    /\ run[r].result[1].success
    /\ run[r].result[1].storesProcessed > 0
    /\ Len(run[r].result[1].errors) > 0
    /\ run[r].result[1].recipesProcessed = Len(recipes)
    /\ Len(AllowedStores(stores)) < Len(stores)

=============================================================================
